---- MODULE Spec2Model ----
(***************************************************************************)
(* Model of the asset client (src/src/core/AssetClient.ts): the            *)
(* transactional get-or-register-or-update read of AssetClient.getAsset    *)
(* with its retry loop, against a store holding the three tables asset,    *)
(* asset_log and asset_retrieval.                                          *)
(* and of the resilience layer around it                                   *)
(* (src/src/core/ResilientAssetClient.ts): the fallback map, the offline   *)
(* flag and the health check timer.                                        *)
(*                                                                         *)
(* Every await of the code is one step of a call: pool.connect, each       *)
(* client.query and the backoff delay.  A store round trip either          *)
(* succeeds or is hit by an injected fault (at most MaxFaults per run).    *)
(* The store runs each transaction READ COMMITTED: reads see the committed *)
(* tables, the writes of a transaction are buffered in the call's pend     *)
(* record and reach the tables at COMMIT, all at once; a ROLLBACK, a       *)
(* failed COMMIT and a connection lost with the transaction open discard   *)
(* them; an UPDATE waits for the uncommitted UPDATE of the same row.       *)
(*                                                                         *)
(* Three specifications share the actions: Spec (calls one at a time, all  *)
(* configurations and argument shapes), SpecConc (two overlapping calls)   *)
(* and SpecResilient (the resilience layer).                               *)
(***************************************************************************)
EXTENDS Integers, Sequences, FiniteSets, TLC

VARIABLES
    config,           \* AssetClientConfig: maxRetries and retryDelay, each optional
    maxActive,        \* how many getAsset calls may be in flight at once
    asset,            \* table asset: master rows (user_key NULL) and registered rows
    asset_log,        \* table asset_log, in insertion order
    asset_retrieval,  \* table asset_retrieval, in insertion order
    now,              \* the store's clock (CURRENT_TIMESTAMP)
    call,             \* per call slot: position, arguments and locals of getAsset
    before,           \* history: the tables as each call found them when it started
    calls,            \* history: number of getAsset calls started
    okCalls,          \* history: number of getAsset reads that returned a payload
    faults,           \* number of store faults injected so far
    \* ResilientAssetClient (src/src/core/ResilientAssetClient.ts)
    fallbackCache,    \* the Map's entries: key, data, lastUpdated
    isOfflineMode,    \* the offline flag
    healthCheckInterval, \* TRUE while the setInterval timer is armed
    wrap,             \* per call slot: the caller awaiting the getAsset call
    clock,            \* the client's clock (new Date(), Date.now())
    ticks,            \* history: number of timer callbacks run
    \* the other operations of the clients and of ConfigurationManager
    poolEnded,        \* pool.end() was called (AssetClient.close)
    api,              \* the application's latest call of another operation
    configCache,      \* ConfigurationManager.cache: path, data, timestamp
    cacheTTL          \* ConfigurationManager.cacheTTL

\* the fields of ResilientAssetClient and the callers of its getAsset
resVars == <<fallbackCache, isOfflineMode, healthCheckInterval, wrap, clock, ticks>>

\* the pool's life, the other operations and the ConfigurationManager
apiVars == <<poolEnded, api, configCache, cacheTTL>>

vars == <<config, maxActive, asset, asset_log, asset_retrieval, now,
          call, before, calls, okCalls, faults, resVars, apiVars>>

----------------------------------------------------------------------------
(* Bounds of the model *)

MaxCalls == 2        \* getAsset calls per behaviour
MaxFaults == 2       \* injected store faults per behaviour
MaxVersion == 2      \* versions the publisher gives one master row
MaxRetriesCfg == 2   \* largest explicitly configured maxRetries

(* Program constants *)

DefaultMaxRetries == 3
DefaultRetryDelay == 1000
TestMaxRetries == 2
TestRetryDelay == 10
TestNoRetries == 1

Calls == {1, 2}
Consumers == {"svc", "app"}
NULL == "<null>"

----------------------------------------------------------------------------
(* JavaScript argument values: a type tag and a printed value *)

Str(s) == [type |-> "string", val |-> s]
Num(s) == [type |-> "number", val |-> s]
Undefined == [type |-> "undefined", val |-> "undefined"]

RegistryArgs == {Str("reg"), Str(""), Num("7")}
KeyArgs == {Str("a"), Str("b"), Str(""), Undefined}

\* the pairs the publisher serves; key "b" is asked for and never published
Registries == {"reg"}
Keys == {"a"}

\* !x of JavaScript
Falsy(x) ==
    \/ x.type = "undefined"
    \/ x.type = "string" /\ x.val = ""
    \/ x.type = "number" /\ x.val = "0"

\* an optional configuration field is the empty set or a singleton
Nullish(opt, default) == IF opt = {} THEN default ELSE CHOOSE x \in opt : TRUE

maxRetries == Nullish(config.maxRetries, DefaultMaxRetries)
retryDelay == Nullish(config.retryDelay, DefaultRetryDelay)

----------------------------------------------------------------------------
(* Errors and results *)

Err(name, msg) == [ok |-> FALSE, value |-> <<>>, name |-> name, msg |-> msg]
Ok(data) == [ok |-> TRUE, value |-> data, name |-> "", msg |-> <<>>]
NoResult == [ok |-> FALSE, value |-> <<>>, name |-> "pending", msg |-> <<>>]

StoreFault(step) == Err("Error", <<"store fault", step>>)
AssetNotFoundError(r, k) == Err("AssetNotFoundError", <<"Asset not found", r, k>>)
AssetUpdateError(msg) == Err("AssetUpdateError", msg)
DatabaseConnectionError(msg) == Err("DatabaseConnectionError", msg)

----------------------------------------------------------------------------
(* Rows *)

\* what the publisher stores as version v of a master row
Content(v) ==
    [asset_class |-> <<"class", v>>, asset_type |-> <<"type", v>>,
     description |-> <<"description", v>>, data |-> <<"data", v>>,
     data_hash |-> <<"hash", v>>, registry_commit |-> <<"commit", v>>,
     registry_commit_url |-> <<"url", v>>]

Row(id, at, u, r, k, c) ==
    [id |-> id, created_at |-> at, user_key |-> u,
     asset_registry |-> r, asset_key |-> k,
     asset_class |-> c.asset_class, asset_type |-> c.asset_type,
     description |-> c.description, data |-> c.data,
     data_hash |-> c.data_hash, registry_commit |-> c.registry_commit,
     registry_commit_url |-> c.registry_commit_url]

MasterRows(r, k) ==
    {a \in asset : a.user_key = NULL /\ a.asset_registry = r /\ a.asset_key = k}

\* mutant: the registered query leaves out the user_key condition
RegisteredRowsOfAnyone(u, r, k) ==
    {a \in asset : a.user_key # NULL /\ a.asset_registry = r /\ a.asset_key = k}

RegisteredRows(u, r, k) ==
    {a \in asset : a.user_key = u /\ a.asset_registry = r /\ a.asset_key = k}

AllRegistered == {a \in asset : a.user_key # NULL}

NoWrites == [ins |-> {}, upd |-> {}, log |-> <<>>, ret |-> <<>>]

----------------------------------------------------------------------------
(* The pure pieces of AssetClient *)

\* mutant: the typeof checks are missing
validateAssetParamsNoTypeof(r, k) ==
    IF Falsy(r)
    THEN {Err("Error", <<"Invalid assetRegistry parameter: must be a non-empty string">>)}
    ELSE IF Falsy(k)
    THEN {Err("Error", <<"Invalid assetKey parameter: must be a non-empty string">>)}
    ELSE {}

\* validateAssetParams: the errors it throws (none when the arguments pass)
validateAssetParams(r, k) ==
    IF Falsy(r) \/ r.type # "string"
    THEN {Err("Error", <<"Invalid assetRegistry parameter: must be a non-empty string">>)}
    ELSE IF Falsy(k) \/ k.type # "string"
    THEN {Err("Error", <<"Invalid assetKey parameter: must be a non-empty string">>)}
    ELSE {}

\* mutant: the loop admits one attempt too many
LoopContinuesOffByOne(retries) == retries <= maxRetries

\* while (retries < this.maxRetries)
LoopContinues(retries) == retries < maxRetries

\* if (retries >= this.maxRetries) throw error
Exhausted(retries) == retries >= maxRetries

\* mutant: the delay does not grow with the attempt number
BackoffDelayConstant(retries) == retryDelay

\* this.retryDelay * retries
BackoffDelay(retries) == retryDelay * retries

\* mutant: the comparison never finds the fingerprints equal
NeedsUpdateAlways(registeredAsset, masterAsset) == TRUE

\* registeredAsset.data_hash !== masterAsset.data_hash
NeedsUpdate(registeredAsset, masterAsset) ==
    registeredAsset.data_hash # masterAsset.data_hash

\* mutant: the payload and fingerprint parameters of the INSERT are swapped
createRegistrationSwapped(userKey, masterAsset, id, at) ==
    [id |-> id, created_at |-> at, user_key |-> userKey,
     asset_registry |-> masterAsset.asset_registry,
     asset_key |-> masterAsset.asset_key,
     asset_class |-> masterAsset.asset_class,
     asset_type |-> masterAsset.asset_type,
     description |-> masterAsset.description,
     data |-> masterAsset.data_hash,
     data_hash |-> masterAsset.data,
     registry_commit |-> masterAsset.registry_commit,
     registry_commit_url |-> masterAsset.registry_commit_url]

\* the row INSERT ... RETURNING * of createRegistration yields
createRegistration(userKey, masterAsset, id, at) ==
    [id |-> id, created_at |-> at, user_key |-> userKey,
     asset_registry |-> masterAsset.asset_registry,
     asset_key |-> masterAsset.asset_key,
     asset_class |-> masterAsset.asset_class,
     asset_type |-> masterAsset.asset_type,
     description |-> masterAsset.description,
     data |-> masterAsset.data,
     data_hash |-> masterAsset.data_hash,
     registry_commit |-> masterAsset.registry_commit,
     registry_commit_url |-> masterAsset.registry_commit_url]

\* mutant: the UPDATE leaves the description out of its SET list
updateRegistrationNoDescription(row, masterAsset, at) ==
    [row EXCEPT !.data = masterAsset.data,
                !.data_hash = masterAsset.data_hash,
                !.registry_commit = masterAsset.registry_commit,
                !.registry_commit_url = masterAsset.registry_commit_url,
                !.created_at = at]

\* mutant: the UPDATE sets the fingerprint but leaves the payload
updateRegistrationKeepsPayload(row, masterAsset, at) ==
    [row EXCEPT !.data_hash = masterAsset.data_hash,
                !.registry_commit = masterAsset.registry_commit,
                !.registry_commit_url = masterAsset.registry_commit_url,
                !.description = masterAsset.description,
                !.created_at = at]

\* the row UPDATE ... WHERE id = $6 RETURNING * of updateRegistration yields
updateRegistration(row, masterAsset, at) ==
    [row EXCEPT !.data = masterAsset.data,
                !.data_hash = masterAsset.data_hash,
                !.registry_commit = masterAsset.registry_commit,
                !.registry_commit_url = masterAsset.registry_commit_url,
                !.description = masterAsset.description,
                !.created_at = at]

\* the asset_log row archiveToLog inserts
archiveToLog(a) ==
    [created_at |-> a.created_at, asset_id |-> a.id, user_key |-> a.user_key,
     asset_registry |-> a.asset_registry, asset_key |-> a.asset_key,
     asset_class |-> a.asset_class, asset_type |-> a.asset_type,
     description |-> a.description, data |-> a.data, data_hash |-> a.data_hash,
     registry_commit |-> a.registry_commit,
     registry_commit_url |-> a.registry_commit_url]

\* the asset_retrieval row logRetrieval inserts
logRetrieval(userKey, assetId, assetRegistry, assetKey) ==
    [user_key |-> userKey, asset_id |-> assetId,
     asset_registry |-> assetRegistry, asset_key |-> assetKey]

\* mutant: the catch block wraps every error, AssetNotFoundError included
ClassifyWrapsAll(error) == AssetUpdateError(<<"Failed to get asset">> \o error.msg)

\* the catch block of getAssetWithTransaction, after ROLLBACK went through
Classify(error) ==
    IF error.name = "AssetNotFoundError"
    THEN error
    ELSE AssetUpdateError(<<"Failed to get asset">> \o error.msg)

\* mutant: getConnection lets the pool's error through unwrapped
ConnectErrorUnwrapped(error) == error

\* getConnection's catch
ConnectError(error) ==
    DatabaseConnectionError(<<"Failed to connect to database">> \o error.msg)

----------------------------------------------------------------------------
(* The store's transactions *)

\* mutant: the catch block ends the transaction with COMMIT, not ROLLBACK
AfterRollbackCommits(pend) == pend

\* the writes of the open transaction that are in the tables after the catch
\* block's client.query('ROLLBACK')
AfterRollback(pend) == NoWrites

\* mutant: the UPDATE picks its rows by registry and key, not by id
ApplyAssetByPair(w) ==
    {IF \E u \in w.upd : \E r \in asset :
            /\ r.id = u.id
            /\ r.asset_registry = a.asset_registry
            /\ r.asset_key = a.asset_key
        THEN LET u == CHOOSE x \in w.upd : \E r \in asset :
                          /\ r.id = x.id
                          /\ r.asset_registry = a.asset_registry
                          /\ r.asset_key = a.asset_key
             IN  updateRegistration(a, u.masterAsset, u.at)
        ELSE a : a \in asset} \cup w.ins

\* the asset table with the buffered writes w applied: each UPDATE rewrites
\* the committed row of its id, each INSERT adds its row
ApplyAsset(w) ==
    {IF \E u \in w.upd : u.id = a.id
        THEN LET u == CHOOSE x \in w.upd : x.id = a.id
             IN  updateRegistration(a, u.masterAsset, u.at)
        ELSE a : a \in asset} \cup w.ins

\* the three tables after the buffered writes w are committed
Committed(w) ==
    [asset |-> ApplyAsset(w),
     asset_log |-> asset_log \o w.log,
     asset_retrieval |-> asset_retrieval \o w.ret]

\* the id the store gives a new row: one no row, committed or not, carries
FreshId ==
    LET used == {a.id : a \in asset} \cup
                UNION {{a.id : a \in call[c].pend.ins} : c \in Calls}
    IN  CHOOSE i \in 1..(Cardinality(used) + 1) : i \notin used

\* the row is locked by the uncommitted UPDATE of another call's transaction:
\* an UPDATE of the same row waits until that transaction ends
RowLocked(c, id) ==
    \E d \in Calls \ {c} : call[d].conn /\ \E u \in call[d].pend.upd : u.id = id

\* a store round trip goes through (TRUE) or is hit by a fault (FALSE)
Outcomes == IF faults < MaxFaults THEN {TRUE, FALSE} ELSE {TRUE}

Fault(ok) == faults' = IF ok THEN faults ELSE faults + 1

\* a round trip through the pool: a pool that was ended refuses every use
PoolOutcomes == IF poolEnded THEN {FALSE} ELSE Outcomes

PoolFault(ok) == faults' = IF ok \/ poolEnded THEN faults ELSE faults + 1

----------------------------------------------------------------------------
(* The state of one getAsset call *)

IdleCall ==
    [pc |-> "idle", userKey |-> NULL, args |-> <<Undefined, Undefined>>,
     assetRegistry |-> "", assetKey |-> "",
     retries |-> 0, conn |-> FALSE, txnTime |-> 0,
     registered |-> {}, registeredAsset |-> {}, masterAsset |-> {},
     resultAsset |-> {},
     error |-> NoResult, pend |-> NoWrites, result |-> NoResult,
     \* history of the call
     attempts |-> 0, connects |-> 0, delays |-> <<>>,
     \* history of the call's current attempt
     statements |-> 0, ended |-> "no", releases |-> 0, faulted |-> FALSE,
     path |-> "none", dropped |-> NoWrites]

\* no caller of the resilience layer awaits the call in the slot
NoWrap == [kind |-> "none", pc |-> "none", cacheKey |-> "", result |-> NoResult]

Snapshot ==
    [registered |-> AllRegistered, asset_log |-> asset_log,
     asset_retrieval |-> asset_retrieval]

Active == {c \in Calls : call[c].pc \notin {"idle", "done"}}

\* entering getAssetWithTransaction: fresh locals, then await getConnection()
StartAttempt(s) ==
    [s EXCEPT !.pc = "connect", !.attempts = @ + 1, !.conn = FALSE,
              !.registered = {}, !.registeredAsset = {}, !.masterAsset = {},
              !.resultAsset = {}, !.txnTime = 0,
              !.error = NoResult, !.pend = NoWrites,
              !.statements = 0, !.ended = "no", !.releases = 0,
              !.faulted = FALSE, !.path = "none", !.dropped = NoWrites]

\* the head of the while loop of getAsset
LoopHead(s) ==
    IF LoopContinues(s.retries)
    THEN StartAttempt(s)
    ELSE [s EXCEPT !.pc = "done",
                   !.result = AssetUpdateError(<<"Max retries exceeded">>)]

\* the catch block of getAsset: count the failure, give up or back off
CatchInGetAsset(s, error) ==
    LET n == s.retries + 1 IN
    IF Exhausted(n)
    THEN [s EXCEPT !.pc = "done", !.retries = n, !.result = error]
    ELSE [s EXCEPT !.pc = "delay", !.retries = n, !.error = error]

\* a statement inside the try block threw: on to the catch block's ROLLBACK
Thrown(s, error) == [s EXCEPT !.pc = "rollback", !.error = error]

\* a finally block that hands nothing back to the pool
FinallyKeepsConnection(s) == s

\* the finally block of getAssetWithTransaction: client.release()
Finally(s) == [s EXCEPT !.conn = FALSE, !.releases = @ + 1]

----------------------------------------------------------------------------
(* The publisher (external): creates a master row, or gives it new content *)

Version(a) == a.data[2]

Publish(r, k) ==
    /\ \/ /\ MasterRows(r, k) = {}
          /\ asset' = asset \cup {Row(FreshId, now, NULL, r, k, Content(1))}
       \/ \E m \in MasterRows(r, k) :
            /\ Version(m) < MaxVersion
            /\ asset' = (asset \ {m}) \cup
                        {Row(m.id, now, NULL, r, k, Content(Version(m) + 1))}
    /\ now' = now + 1
    /\ UNCHANGED <<apiVars, resVars, config, maxActive, asset_log, asset_retrieval, call,
                   before, calls, okCalls, faults>>

----------------------------------------------------------------------------
(* AssetClient.getAsset *)

\* the call slots free for a new call: no call in them, or one that is
\* complete and whose caller has taken the outcome
Free == {c \in Calls : call[c].pc \in {"idle", "done"} /\ wrap[c].pc # "await"}

\* the frame of a getAsset call that ran up to its first await:
\* validateAssetParams, retries = 0, the loop head
Entered(u, r, k) ==
    LET s == [IdleCall EXCEPT !.userKey = u, !.args = <<r, k>>,
                              !.assetRegistry = r.val, !.assetKey = k.val]
        invalid == validateAssetParams(r, k)
    IN  IF invalid # {}
        THEN [s EXCEPT !.pc = "done", !.result = CHOOSE e \in invalid : TRUE]
        ELSE LoopHead(s)

\* getAsset is entered in a free call slot
EnterGetAsset(c, u, r, k) ==
    /\ c \in Free
    /\ \A y \in Free : c <= y
    /\ Cardinality(Active) < maxActive
    /\ before' = [before EXCEPT ![c] = Snapshot]
    /\ call' = [call EXCEPT ![c] = Entered(u, r, k)]
    /\ UNCHANGED <<config, maxActive, asset, asset_log, asset_retrieval, now, okCalls, faults>>

\* the application calls getAsset
GetAsset(c, u, r, k) ==
    /\ calls < MaxCalls
    /\ calls' = calls + 1
    /\ EnterGetAsset(c, u, r, k)
    /\ UNCHANGED <<apiVars, resVars>>

\* await this.pool.connect(), in getConnection
Connect(c) ==
    LET s == call[c] IN
    /\ s.pc = "connect"
    /\ \E ok \in PoolOutcomes :
         /\ PoolFault(ok)
         /\ call' = [call EXCEPT ![c] =
              IF ok
              THEN [s EXCEPT !.pc = "begin", !.conn = TRUE, !.connects = @ + 1]
              ELSE CatchInGetAsset([s EXCEPT !.connects = @ + 1, !.faulted = TRUE],
                                   ConnectError(StoreFault("connect")))]
    /\ UNCHANGED <<apiVars, resVars, config, maxActive, asset, asset_log, asset_retrieval, now, before, calls, okCalls>>

\* await client.query('BEGIN')
Begin(c) ==
    LET s == [call[c] EXCEPT !.statements = @ + 1] IN
    /\ s.pc = "begin"
    /\ \E ok \in Outcomes :
         /\ Fault(ok)
         /\ call' = [call EXCEPT ![c] =
              IF ok
              THEN [s EXCEPT !.pc = "selectRegistered", !.txnTime = now]
              ELSE Thrown([s EXCEPT !.faulted = TRUE], StoreFault("BEGIN"))]
    /\ UNCHANGED <<apiVars, resVars, config, maxActive, asset, asset_log, asset_retrieval, now,
                   before, calls, okCalls>>

\* step 1: await client.query(registeredQuery, [userKey, registry, key])
SelectRegistered(c) ==
    LET s == [call[c] EXCEPT !.statements = @ + 1] IN
    /\ s.pc = "selectRegistered"
    /\ \E ok \in Outcomes :
         /\ Fault(ok)
         /\ call' = [call EXCEPT ![c] =
              IF ok
              THEN [s EXCEPT !.pc = "selectMaster",
                             !.registered =
                                 RegisteredRows(s.userKey, s.assetRegistry, s.assetKey)]
              ELSE Thrown([s EXCEPT !.faulted = TRUE], StoreFault("SELECT registered"))]
    /\ UNCHANGED <<apiVars, resVars, config, maxActive, asset, asset_log, asset_retrieval, now, before, calls, okCalls>>

\* the code between the master query and the next await: which way the read goes
Branch(s, rows) ==
    IF rows = {}
    THEN {Thrown(s, AssetNotFoundError(s.assetRegistry, s.assetKey))}
    ELSE IF s.registered = {}
    THEN {[s EXCEPT !.pc = "createRegistration", !.masterAsset = {m},
                    !.path = "register"] : m \in rows}
    ELSE {IF NeedsUpdate(reg, m)
          THEN [s EXCEPT !.pc = "archiveToLog", !.masterAsset = {m},
                         !.registeredAsset = {reg}, !.path = "update"]
          ELSE [s EXCEPT !.pc = "logRetrieval", !.masterAsset = {m},
                         !.registeredAsset = {reg}, !.resultAsset = {reg},
                         !.path = "current"]
          : m \in rows, reg \in s.registered}

\* step 2: await client.query(masterQuery, [registry, key]), then steps 3-6
SelectMaster(c) ==
    LET s == [call[c] EXCEPT !.statements = @ + 1] IN
    /\ s.pc = "selectMaster"
    /\ \E ok \in Outcomes :
         /\ Fault(ok)
         /\ IF ok
            THEN \E t \in Branch(s, MasterRows(s.assetRegistry, s.assetKey)) :
                    call' = [call EXCEPT ![c] = t]
            ELSE call' = [call EXCEPT ![c] =
                    Thrown([s EXCEPT !.faulted = TRUE], StoreFault("SELECT master"))]
    /\ UNCHANGED <<apiVars, resVars, config, maxActive, asset, asset_log, asset_retrieval, now, before, calls, okCalls>>

\* step 4: await this.createRegistration(client, masterAsset)
CreateRegistration(c) ==
    LET s == [call[c] EXCEPT !.statements = @ + 1] IN
    /\ s.pc = "createRegistration"
    /\ \E ok \in Outcomes, m \in s.masterAsset :
         /\ Fault(ok)
         /\ call' = [call EXCEPT ![c] =
              IF ok
              THEN LET row == createRegistration(s.userKey, m, FreshId, s.txnTime)
                   IN  [s EXCEPT !.pc = "logRetrieval",
                                 !.pend.ins = @ \cup {row},
                                 !.resultAsset = {row}]
              ELSE Thrown([s EXCEPT !.faulted = TRUE], StoreFault("INSERT asset"))]
    /\ UNCHANGED <<apiVars, resVars, config, maxActive, asset, asset_log, asset_retrieval, now,
                   before, calls, okCalls>>

\* step 5, first half: await this.archiveToLog(client, registeredAsset)
ArchiveToLog(c) ==
    LET s == [call[c] EXCEPT !.statements = @ + 1] IN
    /\ s.pc = "archiveToLog"
    /\ \E ok \in Outcomes, reg \in s.registeredAsset :
         /\ Fault(ok)
         /\ call' = [call EXCEPT ![c] =
              IF ok
              THEN [s EXCEPT !.pc = "updateRegistration",
                             !.pend.log = Append(@, archiveToLog(reg))]
              ELSE Thrown([s EXCEPT !.faulted = TRUE], StoreFault("INSERT asset_log"))]
    /\ UNCHANGED <<apiVars, resVars, config, maxActive, asset, asset_log, asset_retrieval, now, before, calls, okCalls>>

\* step 5, second half: await this.updateRegistration(client, registeredAsset, masterAsset)
UpdateRegistration(c) ==
    LET s == [call[c] EXCEPT !.statements = @ + 1] IN
    /\ s.pc = "updateRegistration"
    /\ \A reg \in s.registeredAsset : ~RowLocked(c, reg.id)
    /\ \E ok \in Outcomes, reg \in s.registeredAsset, m \in s.masterAsset :
         /\ Fault(ok)
         /\ call' = [call EXCEPT ![c] =
              IF ok
              THEN LET current == CHOOSE a \in asset : a.id = reg.id
                   IN  [s EXCEPT !.pc = "logRetrieval",
                                 !.pend.upd = @ \cup {[id |-> reg.id, masterAsset |-> m,
                                                       at |-> s.txnTime]},
                                 !.resultAsset =
                                     {updateRegistration(current, m, s.txnTime)}]
              ELSE Thrown([s EXCEPT !.faulted = TRUE], StoreFault("UPDATE asset"))]
    /\ UNCHANGED <<apiVars, resVars, config, maxActive, asset, asset_log, asset_retrieval, now, before, calls, okCalls>>

\* step 7: await this.logRetrieval(client, resultAsset.id, registry, key)
LogRetrieval(c) ==
    LET s == [call[c] EXCEPT !.statements = @ + 1] IN
    /\ s.pc = "logRetrieval"
    /\ \E ok \in Outcomes, res \in s.resultAsset :
         /\ Fault(ok)
         /\ call' = [call EXCEPT ![c] =
              IF ok
              THEN [s EXCEPT !.pc = "commit",
                             !.pend.ret = Append(@, logRetrieval(s.userKey, res.id,
                                                  s.assetRegistry, s.assetKey))]
              ELSE Thrown([s EXCEPT !.faulted = TRUE],
                          StoreFault("INSERT asset_retrieval"))]
    /\ UNCHANGED <<apiVars, resVars, config, maxActive, asset, asset_log, asset_retrieval, now, before, calls, okCalls>>

\* step 8: await client.query('COMMIT'); return resultAsset.data; finally release
Commit(c) ==
    LET s == [call[c] EXCEPT !.statements = @ + 1] IN
    /\ s.pc = "commit"
    /\ \E ok \in Outcomes, res \in s.resultAsset :
         /\ Fault(ok)
         /\ IF ok
            THEN /\ asset' = Committed(s.pend).asset
                 /\ asset_log' = Committed(s.pend).asset_log
                 /\ asset_retrieval' = Committed(s.pend).asset_retrieval
                 /\ okCalls' = okCalls + 1
                 /\ now' = now + 1
                 /\ call' = [call EXCEPT ![c] =
                      [Finally(s) EXCEPT !.pc = "done", !.ended = "commit",
                                         !.result = Ok(res.data)]]
            ELSE /\ UNCHANGED <<asset, asset_log, asset_retrieval, okCalls, now>>
                 /\ call' = [call EXCEPT ![c] =
                      Thrown([s EXCEPT !.faulted = TRUE], StoreFault("COMMIT"))]
    /\ UNCHANGED <<apiVars, resVars, config, maxActive, before, calls>>

\* the catch block: await client.query('ROLLBACK'), classify; finally release;
\* then the catch block of getAsset.  When ROLLBACK itself fails its error is
\* the one thrown, and the store drops the open transaction with the connection.
Rollback(c) ==
    LET t == call[c]
        s == Finally([t EXCEPT !.statements = @ + 1,
                               !.pend = NoWrites, !.dropped = t.pend]) IN
    /\ s.pc = "rollback"
    /\ \E ok \in Outcomes :
         /\ Fault(ok)
         /\ LET kept == IF ok THEN AfterRollback(t.pend) ELSE NoWrites IN
            /\ asset' = Committed(kept).asset
            /\ asset_log' = Committed(kept).asset_log
            /\ asset_retrieval' = Committed(kept).asset_retrieval
         /\ call' = [call EXCEPT ![c] =
              IF ok
              THEN CatchInGetAsset([s EXCEPT !.ended = "rollback"], Classify(s.error))
              ELSE CatchInGetAsset([s EXCEPT !.ended = "rollback failed",
                                             !.faulted = TRUE],
                                   StoreFault("ROLLBACK"))]
    /\ UNCHANGED <<apiVars, resVars, config, maxActive, now, before, calls, okCalls>>

\* await this.delay(this.retryDelay * retries), then the loop head again
Delay(c) ==
    LET s == call[c] IN
    /\ s.pc = "delay"
    /\ call' = [call EXCEPT ![c] =
          LoopHead([s EXCEPT !.delays = Append(@, BackoffDelay(s.retries))])]
    /\ UNCHANGED <<apiVars, resVars, config, maxActive, asset, asset_log, asset_retrieval, now, before, calls, okCalls, faults>>

----------------------------------------------------------------------------
(* Specification: one client configuration, calls one at a time *)

Configs ==
    [maxRetries : {{}} \cup {{n} : n \in 0..MaxRetriesCfg}, retryDelay : {{}}]
    \cup {[maxRetries |-> {TestMaxRetries}, retryDelay |-> {TestRetryDelay}]}

\* the store as the client may find it: empty, or left by an earlier run in
\* which the publisher published reg/a and consumer svc read it once
EmptyStore ==
    [asset |-> {}, asset_log |-> <<>>, asset_retrieval |-> <<>>, now |-> 1]

UsedStore ==
    LET m == Row(1, 1, NULL, "reg", "a", Content(1))
        reg == Row(2, 2, "svc", "reg", "a", Content(1))
    IN  [asset |-> {m, reg}, asset_log |-> <<>>,
         asset_retrieval |-> <<[user_key |-> "svc", asset_id |-> 2,
                                asset_registry |-> "reg", asset_key |-> "a"]>>,
         now |-> 3]

\* no call of another operation is under way or was made
NoApi == [op |-> "none", pc |-> "none", arg |-> <<>>, result |-> NoResult]

\* a pool that is open, no other operation called, no ConfigurationManager
InitApi ==
    /\ poolEnded = FALSE
    /\ api = NoApi
    /\ configCache = {}
    /\ cacheTTL = 0

\* a plain AssetClient: no fallback map, no timer
InitPlain ==
    /\ InitApi
    /\ fallbackCache = {}
    /\ isOfflineMode = FALSE
    /\ healthCheckInterval = FALSE
    /\ wrap = [c \in Calls |-> NoWrap]
    /\ clock = 1
    /\ ticks = 0

InitStore(store) ==
    /\ asset = store.asset
    /\ asset_log = store.asset_log
    /\ asset_retrieval = store.asset_retrieval
    /\ now = store.now
    /\ okCalls = Len(store.asset_retrieval)

Init ==
    /\ config \in Configs
    /\ maxActive = 1
    /\ \E store \in {EmptyStore, UsedStore} : InitStore(store)
    /\ call = [c \in Calls |-> IdleCall]
    /\ before = [c \in Calls |-> Snapshot]
    /\ calls = 0
    /\ faults = 0
    /\ InitPlain

Next ==
    \/ \E r \in Registries, k \in Keys : Publish(r, k)
    \/ \E c \in Calls, u \in Consumers, r \in RegistryArgs, k \in KeyArgs :
          GetAsset(c, u, r, k)
    \/ \E c \in Calls : Connect(c)
    \/ \E c \in Calls : Begin(c)
    \/ \E c \in Calls : SelectRegistered(c)
    \/ \E c \in Calls : SelectMaster(c)
    \/ \E c \in Calls : CreateRegistration(c)
    \/ \E c \in Calls : ArchiveToLog(c)
    \/ \E c \in Calls : UpdateRegistration(c)
    \/ \E c \in Calls : LogRetrieval(c)
    \/ \E c \in Calls : Commit(c)
    \/ \E c \in Calls : Rollback(c)
    \/ \E c \in Calls : Delay(c)

Spec == Init /\ [][Next]_vars

----------------------------------------------------------------------------
(* Vocabulary of the properties *)

Done(c) == call[c].pc = "done"
Returned(c) == Done(c) /\ call[c].result.ok
Raised(c) == Done(c) /\ ~call[c].result.ok

\* the call changed no registered row, no archive entry, no retrieval entry
TablesAsBefore(c) ==
    /\ AllRegistered = before[c].registered
    /\ asset_log = before[c].asset_log
    /\ asset_retrieval = before[c].asset_retrieval

\* the consumer's registered rows for the call's pair when the call started
RegisteredBefore(c) ==
    {a \in before[c].registered :
        /\ a.user_key = call[c].userKey
        /\ a.asset_registry = call[c].assetRegistry
        /\ a.asset_key = call[c].assetKey}

\* the master rows of the call's pair
MasterOf(c) == MasterRows(call[c].assetRegistry, call[c].assetKey)

\* the master row m was published before the call's last attempt began, so
\* it is the master row that attempt read
PublishedBeforeLastAttempt(c, m) == m.created_at < call[c].txnTime

\* the retrieval log grew by exactly the entry (consumer, id, registry, key)
OneRetrievalAppended(c, id) ==
    asset_retrieval =
        Append(before[c].asset_retrieval,
               [user_key |-> call[c].userKey, asset_id |-> id,
                asset_registry |-> call[c].assetRegistry,
                asset_key |-> call[c].assetKey])

----------------------------------------------------------------------------
(* C1: a getAsset call for a pair that has no master row, whose attempts   *)
(* reach the store, never returns a payload: it raises AssetNotFoundError  *)
(* (unless a store fault hits its last attempt, which then surfaces that   *)
(* fault), and over all its attempts no registered row, archive entry or   *)
(* retrieval entry is inserted or updated.                                 *)
C1_NotFoundWritesNothing ==
    \A c \in Calls :
        (call[c].attempts >= 1 /\ MasterOf(c) = {}) =>
            /\ TablesAsBefore(c)
            /\ call[c].pend = NoWrites
            /\ Done(c) =>
                 /\ ~call[c].result.ok
                 /\ ~call[c].faulted =>
                      /\ call[c].result.name = "AssetNotFoundError"
                      /\ call[c].result.msg =
                           <<"Asset not found", call[c].assetRegistry, call[c].assetKey>>

\* C1 witness: a call for a never published pair ended in AssetNotFoundError after three
\* attempts, with rows in the tables that it left alone
C1_Witness ==
    \E c \in Calls :
        /\ Done(c) /\ MasterOf(c) = {} /\ call[c].attempts = 3
        /\ call[c].result.name = "AssetNotFoundError"
        /\ asset_retrieval # <<>> /\ AllRegistered # {}

(* C2: when a master row exists and the consumer has no registered row for *)
(* the pair, a getAsset call that returns has inserted exactly one         *)
(* registered row, carrying the consumer's user_key and the master's       *)
(* registry, key, class, type, description, payload, fingerprint, commit   *)
(* id and commit URL, has appended exactly one retrieval entry (naming     *)
(* that row), has archived nothing, and returns the master's payload.      *)
C2_FirstReadRegisters ==
    \A c \in Calls :
        (Returned(c) /\ RegisteredBefore(c) = {}) =>
            \E row \in AllRegistered, m \in call[c].masterAsset :
                /\ row \notin before[c].registered
                /\ AllRegistered = before[c].registered \cup {row}
                /\ \E cur \in MasterOf(c) :
                      /\ cur.id = m.id
                      /\ PublishedBeforeLastAttempt(c, cur) => m = cur
                /\ m.user_key = NULL
                /\ row.user_key = call[c].userKey
                /\ row.asset_registry = m.asset_registry
                /\ row.asset_registry = call[c].assetRegistry
                /\ row.asset_key = m.asset_key
                /\ row.asset_key = call[c].assetKey
                /\ row.asset_class = m.asset_class
                /\ row.asset_type = m.asset_type
                /\ row.description = m.description
                /\ row.data = m.data
                /\ row.data_hash = m.data_hash
                /\ row.registry_commit = m.registry_commit
                /\ row.registry_commit_url = m.registry_commit_url
                /\ row.id # m.id
                /\ OneRetrievalAppended(c, row.id)
                /\ asset_log = before[c].asset_log
                /\ call[c].result = Ok(m.data)

\* C2 witness: a consumer's first read of a published pair returned
C2_Witness ==
    \E c \in Calls :
        /\ Returned(c) /\ RegisteredBefore(c) = {}
        /\ \E cur \in MasterOf(c) : PublishedBeforeLastAttempt(c, cur)
        /\ before[c].registered # {}

(* C3: when the consumer's registered row carries the master's fingerprint,*)
(* a getAsset call that returns has left the asset table and the archive   *)
(* log unchanged, has appended exactly one retrieval entry and returns the *)
(* registered row's payload; every read that returned has added one        *)
(* retrieval entry, so n reads add n.                                      *)
C3_CurrentReadOnlyLogs ==
    /\ Len(asset_retrieval) = okCalls
    /\ \A c \in Calls :
         \A reg \in RegisteredBefore(c), cur \in MasterOf(c) :
            (/\ Returned(c)
             /\ PublishedBeforeLastAttempt(c, cur)
             /\ reg.data_hash = cur.data_hash) =>
                /\ AllRegistered = before[c].registered
                /\ asset_log = before[c].asset_log
                /\ OneRetrievalAppended(c, reg.id)
                /\ call[c].result = Ok(reg.data)

\* C3 witness: the second of two reads in a row of an up-to-date registered row returned
C3_Witness ==
    \E c \in Calls :
        /\ Returned(c) /\ calls = 2 /\ Len(asset_retrieval) = 3
        /\ asset_log = <<>>
        /\ \E reg \in RegisteredBefore(c), cur \in MasterOf(c) :
              PublishedBeforeLastAttempt(c, cur) /\ reg.data_hash = cur.data_hash

UpdatedRow(reg, cur, at) ==
    [id |-> reg.id, created_at |-> at, user_key |-> reg.user_key,
     asset_registry |-> reg.asset_registry, asset_key |-> reg.asset_key,
     asset_class |-> reg.asset_class, asset_type |-> reg.asset_type,
     description |-> cur.description, data |-> cur.data,
     data_hash |-> cur.data_hash, registry_commit |-> cur.registry_commit,
     registry_commit_url |-> cur.registry_commit_url]

ArchiveOf(reg) ==
    [created_at |-> reg.created_at, asset_id |-> reg.id, user_key |-> reg.user_key,
     asset_registry |-> reg.asset_registry, asset_key |-> reg.asset_key,
     asset_class |-> reg.asset_class, asset_type |-> reg.asset_type,
     description |-> reg.description, data |-> reg.data,
     data_hash |-> reg.data_hash, registry_commit |-> reg.registry_commit,
     registry_commit_url |-> reg.registry_commit_url]

StaleRead(c, reg, cur) ==
    /\ Returned(c)
    /\ reg \in RegisteredBefore(c)
    /\ cur \in MasterOf(c)
    /\ PublishedBeforeLastAttempt(c, cur)
    /\ reg.data_hash # cur.data_hash

(* C4: when the consumer's registered row carries a fingerprint other than *)
(* the master's, a getAsset call that returns has appended one archive     *)
(* entry copying the registered row as it was (all its content, its id and *)
(* its created_at), has overwritten the row's payload, fingerprint, commit *)
(* id, commit URL and description with the master's and its timestamp with *)
(* the current time, has kept the row's id (and its user_key, registry,    *)
(* key, class and type), and returns the master's new payload.             *)
C4_StaleReadArchivesAndUpdates ==
    \A c \in Calls :
        \A reg \in RegisteredBefore(c), cur \in MasterOf(c) :
            StaleRead(c, reg, cur) =>
                /\ asset_log = Append(before[c].asset_log, ArchiveOf(reg))
                /\ AllRegistered = (before[c].registered \ {reg}) \cup
                                   {UpdatedRow(reg, cur, call[c].txnTime)}
                /\ call[c].txnTime > reg.created_at
                /\ OneRetrievalAppended(c, reg.id)
                /\ call[c].result = Ok(cur.data)

\* C4 as stated: the row's timestamp is overwritten with the master's
C4_AsStated ==
    \A c \in Calls :
        \A reg \in RegisteredBefore(c), cur \in MasterOf(c) :
            StaleRead(c, reg, cur) =>
                /\ asset_log = Append(before[c].asset_log, ArchiveOf(reg))
                /\ AllRegistered = (before[c].registered \ {reg}) \cup
                                   {UpdatedRow(reg, cur, cur.created_at)}
                /\ OneRetrievalAppended(c, reg.id)
                /\ call[c].result = Ok(cur.data)

\* C4 witness: a read of a registered row that the master had moved past returned
C4_Witness ==
    \E c \in Calls :
        \E reg \in RegisteredBefore(c), cur \in MasterOf(c) :
            /\ StaleRead(c, reg, cur)
            /\ cur.asset_class # reg.asset_class
            /\ Len(asset_log) = 1

(* C5: the writes of one getAsset attempt are atomic.  While a call has    *)
(* not returned - its attempt is still running, or has failed at any step  *)
(* after BEGIN and been rolled back - none of its writes is in the tables; *)
(* consequently every archive entry comes with the update of its row (the  *)
(* row of that id now carries a later timestamp) and every registered row  *)
(* comes with a retrieval entry naming it.                                 *)
C5_AttemptIsAtomic ==
    /\ \A c \in Calls :
          (call[c].pc # "idle" /\ ~Returned(c)) => TablesAsBefore(c)
    /\ \A i \in DOMAIN asset_log :
          \E a \in AllRegistered :
              /\ a.id = asset_log[i].asset_id
              /\ a.created_at > asset_log[i].created_at
    /\ \A a \in AllRegistered :
          \E i \in DOMAIN asset_retrieval :
              /\ asset_retrieval[i].asset_id = a.id
              /\ asset_retrieval[i].user_key = a.user_key

\* C5 witness: an attempt that had archived, updated and logged the retrieval failed at
\* COMMIT and was rolled back
C5_Witness ==
    \E c \in Calls :
        /\ call[c].pc \in {"delay", "done"}
        /\ call[c].ended = "rollback"
        /\ call[c].error = StoreFault("COMMIT")
        /\ call[c].dropped.upd # {}
        /\ call[c].dropped.log # <<>>
        /\ call[c].dropped.ret # <<>>

(* C6: AssetNotFound is never retried: a getAsset call whose attempt fails *)
(* with AssetNotFoundError makes exactly one attempt, waits for no backoff *)
(* delay and surfaces the error at once.                                   *)
C6_NotFoundNeverRetried ==
    \A c \in Calls :
        /\ (call[c].pc = "delay") => call[c].error.name # "AssetNotFoundError"
        /\ (Raised(c) /\ call[c].result.name = "AssetNotFoundError") =>
              /\ call[c].attempts = 1
              /\ call[c].delays = <<>>

InTransaction ==
    {"selectRegistered", "selectMaster", "createRegistration", "archiveToLog",
     "updateRegistration", "logRetrieval", "commit"}

(* C7: getAsset retries the whole transactional attempt.  The number of    *)
(* attempts never exceeds maxRetries; a call that returns returns the      *)
(* payload of the attempt that committed, which is its last (attempt k     *)
(* after k - 1 failed ones); every attempt asks the pool for a connection  *)
(* of its own, starts with fresh locals and no buffered write, and runs    *)
(* its own BEGIN and its own COMMIT or ROLLBACK on the connection it got.  *)
C7_RetriesWholeAttempt ==
    \A c \in Calls :
        LET s == call[c] IN
        /\ s.attempts <= maxRetries
        /\ s.connects <= s.attempts
        /\ Returned(c) =>
              /\ s.attempts = s.retries + 1
              /\ s.ended = "commit"
              /\ \E res \in s.resultAsset : s.result = Ok(res.data)
        /\ Raised(c) => s.attempts = s.retries
        /\ (s.pc = "connect") =>
              /\ s.attempts = s.retries + 1
              /\ s.connects = s.attempts - 1
              /\ ~s.conn /\ s.statements = 0 /\ s.ended = "no"
              /\ s.registered = {} /\ s.registeredAsset = {}
              /\ s.masterAsset = {} /\ s.resultAsset = {}
              /\ s.pend = NoWrites /\ s.error = NoResult
        /\ (s.pc = "begin") => s.conn /\ s.statements = 0 /\ s.pend = NoWrites
        /\ (s.pc \in InTransaction) =>
              /\ s.conn /\ s.connects = s.attempts /\ s.statements >= 1
              /\ s.ended = "no"
        /\ (s.pc \in {"delay", "done"} /\ s.statements >= 1) =>
              /\ ~s.conn /\ s.releases = 1
              /\ s.ended \in {"commit", "rollback", "rollback failed"}

\* C7 witness: the first attempt failed and the second committed
C7_Witness ==
    \E c \in Calls :
        /\ Returned(c) /\ call[c].attempts = 2 /\ call[c].delays # <<>>
        /\ call[c].path = "register"

\* the call gave up after maxRetries attempts, the last one hit by a fault
ExhaustedByFault(c) ==
    /\ Raised(c)
    /\ call[c].attempts >= 1
    /\ call[c].attempts = maxRetries
    /\ call[c].faulted

(* C8: when every one of the maxRetries attempts fails with a retryable    *)
(* failure, getAsset raises the error of the last attempt: an              *)
(* AssetUpdateError carrying the failure's message when the attempt failed *)
(* inside the transaction and was rolled back, a DatabaseConnectionError   *)
(* carrying the failure's message when the connection could not be         *)
(* acquired, and the ROLLBACK's own error when the ROLLBACK failed.        *)
C8_ExhaustionRaisesLastError ==
    \A c \in Calls :
        LET s == call[c] IN
        ExhaustedByFault(c) =>
            /\ (s.statements = 0) =>
                  s.result = Err("DatabaseConnectionError",
                                 <<"Failed to connect to database",
                                   "store fault", "connect">>)
            /\ (s.ended = "rollback") =>
                  /\ s.error.name = "Error"
                  /\ s.error.msg[1] = "store fault"
                  /\ s.result = Err("AssetUpdateError",
                                    <<"Failed to get asset">> \o s.error.msg)
            /\ (s.ended = "rollback failed") =>
                  s.result = Err("Error", <<"store fault", "ROLLBACK">>)
            /\ s.statements = 0 \/ s.ended \in {"rollback", "rollback failed"}

\* C8 as stated: exhaustion always raises an AssetUpdateError
C8_AsStated ==
    \A c \in Calls :
        ExhaustedByFault(c) => call[c].result.name = "AssetUpdateError"

\* C8 witness: two attempts failed inside the transaction and the call gave up with an
\* AssetUpdateError that carries the second failure
C8_Witness ==
    \E c \in Calls :
        /\ ExhaustedByFault(c)
        /\ call[c].attempts = 2
        /\ call[c].ended = "rollback"
        /\ call[c].result = Err("AssetUpdateError",
                                <<"Failed to get asset", "store fault", "UPDATE asset">>)

(* C9: backoff is linear: the delay waited after the n-th failed attempt   *)
(* is retryDelay * n, one delay is waited between two attempts, and none   *)
(* after the last failed attempt.                                          *)
C9_LinearBackoff ==
    \A c \in Calls :
        LET s == call[c] IN
        /\ \A n \in DOMAIN s.delays : s.delays[n] = retryDelay * n
        /\ (s.pc \in {"connect", "begin"} \cup InTransaction \cup {"rollback"}) =>
              Len(s.delays) = s.attempts - 1
        /\ (s.pc = "delay") => Len(s.delays) = s.attempts - 1
        /\ (Done(c) /\ s.attempts >= 1) => Len(s.delays) = s.attempts - 1

\* C9 witness: a call gave up after three attempts, having waited retryDelay and then
\* twice retryDelay
C9_Witness ==
    \E c \in Calls :
        /\ Raised(c) /\ call[c].attempts = 3
        /\ call[c].delays = <<retryDelay, 2 * retryDelay>>

Malformed(x) == x.type # "string" \/ x.val = ""

(* C10: a getAsset call whose registry or key is empty or not a string     *)
(* fails at once with a validation error: it makes no attempt, asks the    *)
(* pool for no connection, sends no statement, waits for no delay and      *)
(* leaves the tables alone.                                                *)
C10_MalformedArgumentsRejected ==
    \A c \in Calls :
        LET s == call[c] IN
        (s.pc # "idle" /\ (Malformed(s.args[1]) \/ Malformed(s.args[2]))) =>
            /\ Raised(c)
            /\ s.result.name = "Error"
            /\ s.result.msg \in
                 {<<"Invalid assetRegistry parameter: must be a non-empty string">>,
                  <<"Invalid assetKey parameter: must be a non-empty string">>}
            /\ Malformed(s.args[1]) =>
                 s.result.msg[1] =
                     "Invalid assetRegistry parameter: must be a non-empty string"
            /\ s.attempts = 0 /\ s.retries = 0
            /\ s.connects = 0 /\ ~s.conn
            /\ s.statements = 0
            /\ s.delays = <<>>
            /\ TablesAsBefore(c)

\* C10 witness: a call with a number for registry was rejected while the pair it might
\* have meant is published
C10_Witness ==
    \E c \in Calls :
        /\ Raised(c)
        /\ call[c].args[1] = Num("7")
        /\ call[c].args[2] = Str("a")
        /\ MasterRows("reg", "a") # {}
        /\ maxRetries = 3

----------------------------------------------------------------------------
(* Specification: calls of one client overlap.  The pool hands out two    *)
(* connections, and consumer svc makes one getAsset call on each for the  *)
(* same pair: the two calls run their attempts step by step in any        *)
(* interleaving with each other and with the publisher, against a store   *)
(* at READ COMMITTED.                                                     *)

ConcConfig == [maxRetries |-> {TestMaxRetries}, retryDelay |-> {TestRetryDelay}]

InitConc ==
    /\ config = ConcConfig
    /\ maxActive = Cardinality(Calls)
    /\ \E store \in {EmptyStore, UsedStore} : InitStore(store)
    /\ call = [c \in Calls |-> IdleCall]
    /\ before = [c \in Calls |-> Snapshot]
    /\ calls = 0
    /\ faults = 0
    /\ InitPlain

NextConc ==
    \/ \E r \in Registries, k \in Keys : Publish(r, k)
    \/ \E c \in Calls : call[c].pc = "idle" /\ GetAsset(c, "svc", Str("reg"), Str("a"))
    \/ \E c \in Calls : Connect(c)
    \/ \E c \in Calls : Begin(c)
    \/ \E c \in Calls : SelectRegistered(c)
    \/ \E c \in Calls : SelectMaster(c)
    \/ \E c \in Calls : CreateRegistration(c)
    \/ \E c \in Calls : ArchiveToLog(c)
    \/ \E c \in Calls : UpdateRegistration(c)
    \/ \E c \in Calls : LogRetrieval(c)
    \/ \E c \in Calls : Commit(c)
    \/ \E c \in Calls : Rollback(c)
    \/ \E c \in Calls : Delay(c)

SpecConc == InitConc /\ [][NextConc]_vars

----------------------------------------------------------------------------
(* C11: every attempt that acquired a pooled connection releases it       *)
(* exactly once on every exit path (commit, not-found, a failed           *)
(* statement, a failed ROLLBACK), an attempt that acquired none releases  *)
(* none, and a call that is between attempts or complete holds no         *)
(* connection, whatever the interleaving with the other call.             *)
C11_ConnectionReleasedOnce ==
    \A c \in Calls :
        LET s == call[c] IN
        /\ s.releases <= 1
        /\ s.conn => (s.releases = 0 /\ s.ended = "no")
        /\ s.pc \in {"idle", "connect", "delay", "done"} => ~s.conn
        /\ (s.pc \in {"delay", "done"} /\ s.attempts >= 1) =>
              /\ s.ended # "no" => s.releases = 1
              /\ s.ended = "no" => (s.releases = 0 /\ s.statements = 0)
              /\ s.statements >= 1 => s.ended # "no"

\* C11 witness: while the other call was inside its transaction, a call
\* completed whose last attempt failed a statement and then failed its
\* ROLLBACK, and the connection went back to the pool once
C11_Witness ==
    \E c, d \in Calls :
        /\ Done(c)
        /\ call[c].ended = "rollback failed"
        /\ call[c].releases = 1 /\ ~call[c].conn
        /\ call[d].conn

----------------------------------------------------------------------------
(* C12: two getAsset calls racing to register the same pair for the same  *)
(* consumer never both insert: in every reachable state the store holds   *)
(* at most one registered row per (registry, key, consumer).              *)
C12_OneRegistrationPerConsumer ==
    \A a, b \in AllRegistered :
        (/\ a.user_key = b.user_key
         /\ a.asset_registry = b.asset_registry
         /\ a.asset_key = b.asset_key) => a.id = b.id

----------------------------------------------------------------------------
\* the archive entries that copy the content (by fingerprint) of row id
ArchivesOf(id, hash) ==
    {i \in DOMAIN asset_log :
        asset_log[i].asset_id = id /\ asset_log[i].data_hash = hash}

\* every retrieval entry was appended by a call that returned, one each
RetrievalsMatchReturns == Len(asset_retrieval) = okCalls

(* C13: log entries are written exactly once per event under every        *)
(* interleaving: the retrieval log holds one entry per call that returned *)
(* (none for failed or retried attempts), and each content a registered   *)
(* row held and lost to a newer one is in the archive log exactly once,   *)
(* also when two calls of the consumer saw the same stale row together.   *)
C13_LogsExactlyOnce ==
    /\ RetrievalsMatchReturns
    /\ \A a \in AllRegistered : \A i \in DOMAIN asset_log :
          asset_log[i].asset_id = a.id =>
              Cardinality(ArchivesOf(a.id, asset_log[i].data_hash)) = 1

----------------------------------------------------------------------------
\* sequence s is the beginning of sequence t
IsPrefix(s, t) == Len(s) <= Len(t) /\ SubSeq(t, 1, Len(s)) = s

Masters == {a \in asset : a.user_key = NULL}

\* every step of a call changes the call's record; a publisher step none
ClientStep == call' # call

(* C14: no client step deletes a row, changes an archive or retrieval     *)
(* entry already written, or inserts or changes a master row: the two     *)
(* logs only grow at the end, a registered row stays the row of its       *)
(* consumer and pair under its id (inserted, or updated in place), and    *)
(* master rows change in publisher steps only.                            *)
C14_ClientOnlyAppends ==
    [][/\ IsPrefix(asset_log, asset_log')
       /\ IsPrefix(asset_retrieval, asset_retrieval')
       /\ \A a \in asset : \E b \in asset' :
             /\ b.id = a.id
             /\ b.user_key = a.user_key
             /\ b.asset_registry = a.asset_registry
             /\ b.asset_key = a.asset_key
       /\ ClientStep => Masters' = Masters]_vars

\* C14 witness: both calls committed, one registered row was rewritten in
\* place and archived, and the publisher's newest master row is as published
C14_Witness ==
    /\ \A c \in Calls : Returned(c)
    /\ Len(asset_log) >= 1
    /\ Len(asset_retrieval) >= 3
    /\ \E m \in Masters : Version(m) = MaxVersion
    /\ \E a \in AllRegistered : a.id = 2 /\ Version(a) = MaxVersion

----------------------------------------------------------------------------
\* the rows of table t that consumer u does not own
NotOwnedBy(u, t) == {a \in t : a.user_key # u}

\* the entries a step appended to a log
Appended(old, new) == {new[i] : i \in (Len(old) + 1)..Len(new)}

(* C15: consumers are isolated.  A step of a call made by consumer A      *)
(* leaves every row that is not A's as it was, archives rows of A only,   *)
(* bases its decision and its result on the master row and A's own rows   *)
(* only, and writes retrieval entries that carry user_key A and the id of *)
(* A's own registered row of the pair, never the master's id.             *)
C15_ConsumerIsolation ==
    [][\A c \in Calls : call'[c] # call[c] =>
          LET s == call'[c]
              A == s.userKey
          IN  /\ NotOwnedBy(A, asset') = NotOwnedBy(A, asset)
              /\ \A e \in Appended(asset_log, asset_log') : e.user_key = A
              /\ \A e \in Appended(asset_retrieval, asset_retrieval') :
                    /\ e.user_key = A
                    /\ \E a \in asset' :
                          /\ a.id = e.asset_id
                          /\ a.user_key = A
                          /\ a.asset_registry = e.asset_registry
                          /\ a.asset_key = e.asset_key
              /\ \A a \in s.registered \cup s.registeredAsset \cup s.resultAsset :
                    a.user_key = A
              /\ \A a \in s.masterAsset : a.user_key = NULL
              /\ (s.pc = "done" /\ s.result.ok) =>
                    \E a \in asset' :
                       /\ a.user_key = A
                       /\ a.asset_registry = s.assetRegistry
                       /\ a.asset_key = s.assetKey
                       /\ a.data = s.result.value]_vars

\* C15 witness: consumer app registered and read the pair that consumer svc
\* already holds at an older version; the row of svc is as it was
C15_Witness ==
    \E c \in Calls :
        /\ Returned(c)
        /\ call[c].userKey = "app"
        /\ call[c].path = "register"
        /\ call[c].result.value = Content(MaxVersion).data
        /\ \E a \in AllRegistered : a.user_key = "svc" /\ Version(a) = 1
        /\ \E i \in DOMAIN asset_retrieval :
              /\ asset_retrieval[i].user_key = "app"
              /\ \E a \in AllRegistered : a.id = asset_retrieval[i].asset_id
                                          /\ a.user_key = "app"

----------------------------------------------------------------------------
(* ResilientAssetClient: the fallback map, the offline flag and the health *)
(* check timer around the getAsset of the AssetClient it extends           *)

MaxTicks == 1        \* timer callbacks per behaviour

\* the pairs the application reads through the resilience layer: registry
\* and key are paths, and the two pairs differ in where the path is cut
FallbackPairs == {<<"org", "cfg/a">>, <<"org/cfg", "a">>}

\* the pair the timer callback asks getAsset for
HealthCheckPair == <<"health-check", "test">>

\* `${assetRegistry}/${assetKey}`
CacheKey(r, k) == r \o "/" \o k

\* a Date: a time value, or the Invalid Date
ValidDate(t) == [valid |-> TRUE, t |-> t]
InvalidDate == [valid |-> FALSE, t |-> 0]

\* the text of Date.prototype.toISOString, and new Date(text)
ToISOString(d) == <<"iso", d.t>>
ParseDate(text) == IF text[1] = "iso" THEN ValidDate(text[2]) ELSE InvalidDate

\* Map.prototype.get: the entry under the key, if any
CacheGet(cache, key) == {e \in cache : e.key = key}

\* mutant: an entry that exists keeps its time and gets the new payload
CacheSetKeepsTime(cache, key, data, lastUpdated) ==
    {e \in cache : e.key # key}
    \cup {[key |-> key, data |-> data,
           lastUpdated |-> IF \E e \in cache : e.key = key
                           THEN (CHOOSE e \in cache : e.key = key).lastUpdated
                           ELSE lastUpdated]}

\* Map.prototype.set: the entry under the key is replaced
CacheSet(cache, key, data, lastUpdated) ==
    {e \in cache : e.key # key}
    \cup {[key |-> key, data |-> data, lastUpdated |-> lastUpdated]}

\* mutant: the catch block raises an error of its own
RethrownWrapped(error) == Err("Error", <<"Asset unavailable">> \o error.msg)

\* throw error, when nothing is cached
Rethrown(error) == error

\* mutant: the offline flag is set on a DatabaseConnectionError before the
\* map is looked at
FallbackCatchOfflineFirst(cached, offline, error) ==
    LET off == IF error.name = "DatabaseConnectionError" THEN TRUE ELSE offline IN
    IF cached = {}
    THEN [result |-> Rethrown(error), offline |-> off]
    ELSE LET entry == CHOOSE e \in cached : TRUE IN
         IF ~entry.lastUpdated.valid
         THEN [result |-> Err("RangeError", <<"Invalid time value">>), offline |-> off]
         ELSE [result |-> Ok(entry.data), offline |-> off]

\* the catch block of getAssetWithFallback: what the call settles with and
\* the offline flag it leaves.  The log line formats cached.lastUpdated with
\* toISOString, which throws RangeError on an Invalid Date.
FallbackCatch(cached, offline, error) ==
    IF cached = {}
    THEN [result |-> Rethrown(error), offline |-> offline]
    ELSE LET entry == CHOOSE e \in cached : TRUE IN
         IF ~entry.lastUpdated.valid
         THEN [result |-> Err("RangeError", <<"Invalid time value">>),
               offline |-> offline]
         ELSE [result |-> Ok(entry.data),
               offline |-> IF error.name = "DatabaseConnectionError"
                           THEN TRUE ELSE offline]

\* mutant: the timer callback probes on every tick
ProbesAlways(offline) == TRUE

\* if (this.isOfflineMode), in the timer callback
Probes(offline) == offline

Await(kind, key) == [kind |-> kind, pc |-> "await", cacheKey |-> key, result |-> NoResult]

\* getAssetWithFallback, called by the application of consumer svc: the cache key, then await this.getAsset(...)
GetAssetWithFallback(c, r, k) ==
    /\ calls < MaxCalls
    /\ calls' = calls + 1
    /\ EnterGetAsset(c, "svc", Str(r), Str(k))
    /\ wrap' = [wrap EXCEPT ![c] = Await("fallback", CacheKey(r, k))]
    /\ UNCHANGED <<fallbackCache, isOfflineMode, healthCheckInterval, clock, ticks, apiVars>>

\* getAssetWithFallback after the await: the rest of the try block, or the
\* catch; the frame of the getAsset call is gone
FallbackReturn(c) ==
    LET s == call[c]
        w == wrap[c]
    IN  /\ w.kind = "fallback" /\ w.pc = "await"
        /\ s.pc = "done"
        /\ IF s.result.ok
           THEN /\ fallbackCache' = CacheSet(fallbackCache, w.cacheKey,
                                             s.result.value, ValidDate(clock))
                /\ clock' = clock + 1
                /\ isOfflineMode' = FALSE
                /\ wrap' = [wrap EXCEPT ![c] = [w EXCEPT !.pc = "returned",
                                                         !.result = s.result]]
           ELSE LET r == FallbackCatch(CacheGet(fallbackCache, w.cacheKey),
                                       isOfflineMode, s.result)
                IN  /\ isOfflineMode' = r.offline
                    /\ wrap' = [wrap EXCEPT ![c] = [w EXCEPT !.pc = "returned",
                                                             !.result = r.result]]
                    /\ UNCHANGED <<fallbackCache, clock>>
        /\ call' = [call EXCEPT ![c] = IdleCall]
        /\ UNCHANGED <<config, maxActive, asset, asset_log, asset_retrieval, now,
                       before, calls, okCalls, faults,
                       healthCheckInterval, ticks, apiVars>>

\* the setInterval callback: while offline, await super.getAsset('health-check', 'test')
HealthCheckTickUpTo(maxTicks) ==
    /\ healthCheckInterval
    /\ ticks < maxTicks
    /\ ticks' = ticks + 1
    /\ IF Probes(isOfflineMode)
       THEN \E c \in Calls :
              /\ EnterGetAsset(c, "svc", Str(HealthCheckPair[1]), Str(HealthCheckPair[2]))
              /\ wrap' = [wrap EXCEPT ![c] = Await("probe", "")]
              /\ UNCHANGED <<calls, fallbackCache, isOfflineMode,
                             healthCheckInterval, clock, apiVars>>
       ELSE UNCHANGED <<config, maxActive, asset, asset_log, asset_retrieval, now,
                        call, before, calls, okCalls, faults,
                        fallbackCache, isOfflineMode, healthCheckInterval,
                        wrap, clock, apiVars>>

\* the timer fires, at most MaxTicks times
HealthCheckTick == HealthCheckTickUpTo(MaxTicks)

\* the timer callback after the await: the flag is cleared, or the catch swallows
HealthCheckReturn(c) ==
    LET s == call[c]
        w == wrap[c]
    IN  /\ w.kind = "probe" /\ w.pc = "await"
        /\ s.pc = "done"
        /\ isOfflineMode' = IF s.result.ok THEN FALSE ELSE isOfflineMode
        /\ wrap' = [wrap EXCEPT ![c] = [w EXCEPT !.pc = "returned",
                                                 !.result = s.result]]
        /\ call' = [call EXCEPT ![c] = IdleCall]
        /\ UNCHANGED <<config, maxActive, asset, asset_log, asset_retrieval, now,
                       before, calls, okCalls, faults,
                       fallbackCache, healthCheckInterval, clock, ticks, apiVars>>


\* a JSON text: a value in JSON syntax, or not parseable
JSONText(value) == [kind |-> "json", value |-> value]
Unparseable == [kind |-> "garbage"]

\* JSON values: null, an object without the Array protocol, a list
JNull == [null |-> TRUE]
JObject == [type |-> "object"]
JArray(items) == [type |-> "array", items |-> items]

IsNull(value) == DOMAIN value = {"null"}
IsArray(value) == ~IsNull(value) /\ value.type = "array"

\* JSON.parse and JSON.stringify
JSONParse(text) ==
    IF text.kind = "json"
    THEN Ok(text.value)
    ELSE Err("SyntaxError", <<"Unexpected token in JSON">>)

JSONStringify(value) == JSONText(value)

\* Array.from(this.fallbackCache.entries()), in one order
RECURSIVE Entries(_)
Entries(cache) ==
    IF cache = {}
    THEN <<>>
    ELSE LET e == CHOOSE x \in cache : TRUE
         IN  <<e>> \o Entries(cache \ {e})

\* the loop of importFallbackCache over the parsed entries, up to the end
\* of the list or to the item whose fields cannot be read
RECURSIVE ImportEntries(_, _)
ImportEntries(cache, entries) ==
    IF entries = <<>> \/ IsNull(Head(entries))
    THEN cache
    ELSE ImportEntries(CacheSet(cache, Head(entries).key, Head(entries).data,
                                ParseDate(Head(entries).lastUpdated)),
                       Tail(entries))

\* the catch block of importFallbackCache
ImportError(error) == Err("Error", <<"Failed to import fallback cache">> \o error.msg)

\* importFallbackCache: the map it leaves and what it returns or raises
importFallbackCache(cache, data) ==
    LET parsed == JSONParse(data) IN
    IF ~parsed.ok
    THEN [cache |-> cache, result |-> ImportError(parsed)]
    ELSE IF ~IsArray(parsed.value)
         THEN [cache |-> {},
               result |-> ImportError(Err("TypeError", <<"cache is not iterable">>))]
         ELSE LET items == parsed.value.items
              IN  [cache |-> ImportEntries({}, items),
                   result |-> IF \E i \in DOMAIN items : IsNull(items[i])
                              THEN ImportError(Err("TypeError",
                                         <<"Cannot read properties of null">>))
                              ELSE Ok(<<>>)]

\* exportFallbackCache: the text it returns, or the RangeError of toISOString
exportFallbackCache(cache) ==
    IF \E e \in cache : ~e.lastUpdated.valid
    THEN Err("RangeError", <<"Invalid time value">>)
    ELSE LET entries == Entries(cache)
         IN  Ok(JSONStringify(JArray(
                 [i \in DOMAIN entries |->
                     [key |-> entries[i].key, data |-> entries[i].data,
                      lastUpdated |-> ToISOString(entries[i].lastUpdated)]])))

\* if (assetKey): undefined and the empty string are falsy
Truthy(v) == ~(v.type = "undefined" \/ (v.type = "string" /\ v.val = ""))

\* clearFallbackCache: delete the key, or clear
clearFallbackCache(cache, assetKey) ==
    IF Truthy(assetKey)
    THEN {e \in cache : e.key # assetKey.val}
    ELSE {}

\* mutant: the details leave out the entries without a valid time
getFallbackStatusOfDated(cache, offline) ==
    LET entries == Entries({e \in cache : e.lastUpdated.valid})
    IN  [isOffline |-> offline,
         cachedAssets |-> Cardinality(cache),
         cacheDetails |-> [i \in DOMAIN entries |->
                             [key |-> entries[i].key,
                              lastUpdated |-> entries[i].lastUpdated]]]

\* getFallbackStatus
getFallbackStatus(cache, offline) ==
    LET entries == Entries(cache)
    IN  [isOffline |-> offline,
         cachedAssets |-> Cardinality(cache),
         cacheDetails |-> [i \in DOMAIN entries |->
                             [key |-> entries[i].key,
                              lastUpdated |-> entries[i].lastUpdated]]]

\* importFallbackCache with a snapshot that parses to a list of entries:
\* the map is cleared, then filled
ImportFallbackCache(entries) ==
    /\ fallbackCache' = importFallbackCache(fallbackCache,
                                            JSONStringify(JArray(entries))).cache
    /\ UNCHANGED <<config, maxActive, asset, asset_log, asset_retrieval, now,
                   call, before, calls, okCalls, faults,
                   isOfflineMode, healthCheckInterval, wrap, clock, ticks, apiVars>>

----------------------------------------------------------------------------
(* Specification: a ResilientAssetClient of consumer svc and its timer.   *)
(* The application makes its calls one after the other; a timer callback  *)
(* that finds the client offline starts its probe between them.           *)

\* snapshots a file written by an earlier run, or by hand, may hold
Snapshots ==
    {<<[key |-> CacheKey("org", "cfg/a"), data |-> Content(1).data,
        lastUpdated |-> lastUpdated]>> :
       lastUpdated \in {ToISOString(ValidDate(0)), <<"yesterday", 0>>}}

\* the client retries once, or not at all
ResilientConfigs ==
    {ConcConfig, [maxRetries |-> {TestNoRetries}, retryDelay |-> {}]}

\* the store as the client finds it: both pairs published; the first one
\* was read by the consumer in an earlier run (the run the snapshots are
\* from) and republished since; the pair of the health check is published
\* or not
ResilientStore(withHealthCheckPair) ==
    LET a == Row(1, 3, NULL, "org", "cfg/a", Content(MaxVersion))
        b == Row(2, 1, NULL, "org/cfg", "a", Content(1))
        reg == Row(3, 2, "svc", "org", "cfg/a", Content(1))
        h == Row(4, 1, NULL, HealthCheckPair[1], HealthCheckPair[2], Content(1))
    IN  [asset |-> {a, b, reg} \cup (IF withHealthCheckPair THEN {h} ELSE {}),
         asset_log |-> <<>>,
         asset_retrieval |-> <<[user_key |-> "svc", asset_id |-> 3,
                                asset_registry |-> "org", asset_key |-> "cfg/a"]>>,
         now |-> 4]

InitResilient ==
    /\ config \in ResilientConfigs
    /\ maxActive = 1
    /\ \E h \in BOOLEAN : InitStore(ResilientStore(h))
    /\ call = [c \in Calls |-> IdleCall]
    /\ before = [c \in Calls |-> Snapshot]
    /\ calls = 0
    /\ faults = 0
    /\ fallbackCache = {}
    /\ isOfflineMode = FALSE
    /\ healthCheckInterval = TRUE
    /\ wrap = [c \in Calls |-> NoWrap]
    /\ clock = 1
    /\ ticks = 0
    /\ InitApi

NextResilient ==
    \/ \E c \in Calls, p \in FallbackPairs : GetAssetWithFallback(c, p[1], p[2])
    \/ \E c \in Calls : FallbackReturn(c)
    \/ HealthCheckTick
    \/ \E c \in Calls : HealthCheckReturn(c)
    \/ \E entries \in Snapshots : ImportFallbackCache(entries)
    \/ \E c \in Calls : Connect(c)
    \/ \E c \in Calls : Begin(c)
    \/ \E c \in Calls : SelectRegistered(c)
    \/ \E c \in Calls : SelectMaster(c)
    \/ \E c \in Calls : CreateRegistration(c)
    \/ \E c \in Calls : ArchiveToLog(c)
    \/ \E c \in Calls : UpdateRegistration(c)
    \/ \E c \in Calls : LogRetrieval(c)
    \/ \E c \in Calls : Commit(c)
    \/ \E c \in Calls : Rollback(c)
    \/ \E c \in Calls : Delay(c)

SpecResilient == InitResilient /\ [][NextResilient]_vars

----------------------------------------------------------------------------
(* Vocabulary of the properties of the resilience layer *)

\* the step in which getAssetWithFallback of slot c settles
FallbackReturns(c) ==
    wrap[c].kind = "fallback" /\ wrap[c].pc = "await" /\ wrap'[c].pc = "returned"

\* the step in which the timer callback's probe of slot c settles
ProbeReturns(c) ==
    wrap[c].kind = "probe" /\ wrap[c].pc = "await" /\ wrap'[c].pc = "returned"

\* the pair a call of getAssetWithFallback was made for
PairOf(c) == <<call[c].assetRegistry, call[c].assetKey>>

\* the fallback entry getAssetWithFallback finds for a pair
EntryOf(cache, pair) == CacheGet(cache, CacheKey(pair[1], pair[2]))

\* the entry of the call's own pair is the live payload at the current time
OwnEntryRefreshed(c) ==
    /\ EntryOf(fallbackCache', PairOf(c)) =
          {[key |-> CacheKey(PairOf(c)[1], PairOf(c)[2]),
            data |-> call[c].result.value,
            lastUpdated |-> ValidDate(clock)]}
    /\ ~isOfflineMode'
    /\ wrap'[c].result = call[c].result
    /\ \E m \in MasterRows(PairOf(c)[1], PairOf(c)[2]) :
          wrap'[c].result.value = m.data

(* C16: when the wrapped getAsset succeeded, getAssetWithFallback stores  *)
(* the returned payload with the current time as the entry of its pair,   *)
(* replacing an earlier one, leaves the offline flag clear, returns the   *)
(* live payload, and leaves the entry of every other pair as it was.      *)
C16_SuccessRefreshesOwnEntryOnly ==
    [][\A c \in Calls : (FallbackReturns(c) /\ call[c].result.ok) =>
          /\ OwnEntryRefreshed(c)
          /\ \A q \in FallbackPairs \ {PairOf(c)} :
                EntryOf(fallbackCache', q) = EntryOf(fallbackCache, q)]_vars

\* the part of C16 about the call's own pair
SuccessRefreshesOwnEntry ==
    [][\A c \in Calls : (FallbackReturns(c) /\ call[c].result.ok) =>
          OwnEntryRefreshed(c)]_vars

----------------------------------------------------------------------------
(* C17: when the wrapped getAsset failed and the fallback map holds an    *)
(* entry for the pair, getAssetWithFallback returns the entry's payload   *)
(* and raises nothing; the offline flag is set if the failure is a        *)
(* DatabaseConnectionError and keeps its value otherwise.                 *)
C17_FailureServesCachedEntry ==
    [][\A c \in Calls :
          (/\ FallbackReturns(c)
           /\ ~call[c].result.ok
           /\ EntryOf(fallbackCache, PairOf(c)) # {}) =>
              /\ \E e \in EntryOf(fallbackCache, PairOf(c)) :
                    wrap'[c].result = Ok(e.data)
              /\ isOfflineMode' =
                    IF call[c].result.name = "DatabaseConnectionError"
                    THEN TRUE ELSE isOfflineMode]_vars

\* C17 holds for entries whose lastUpdated is a valid Date
FailureServesEntryWithValidDate ==
    [][\A c \in Calls :
          (/\ FallbackReturns(c)
           /\ ~call[c].result.ok
           /\ \E e \in EntryOf(fallbackCache, PairOf(c)) : e.lastUpdated.valid) =>
              /\ \E e \in EntryOf(fallbackCache, PairOf(c)) :
                    wrap'[c].result = Ok(e.data)
              /\ isOfflineMode' =
                    IF call[c].result.name = "DatabaseConnectionError"
                    THEN TRUE ELSE isOfflineMode]_vars

----------------------------------------------------------------------------
\* the last attempt of the call failed to get a connection
ConnectFailedLast(c) ==
    call[c].faulted /\ call[c].statements = 0 /\ call[c].connects >= 1

(* C18: when the wrapped getAsset failed and the fallback map holds no    *)
(* entry for the pair, getAssetWithFallback raises the very error getAsset *)
(* raised, not wrapped and not replaced; when the store could not be      *)
(* reached that is the DatabaseConnectionError of getConnection.          *)
C18_FailureWithoutEntryRethrows ==
    [][\A c \in Calls :
          (/\ FallbackReturns(c)
           /\ ~call[c].result.ok
           /\ EntryOf(fallbackCache, PairOf(c)) = {}) =>
              /\ wrap'[c].result = call[c].result
              /\ ~wrap'[c].result.ok
              /\ ConnectFailedLast(c) =>
                    /\ wrap'[c].result.name = "DatabaseConnectionError"
                    /\ wrap'[c].result.msg =
                          <<"Failed to connect to database", "store fault", "connect">>]_vars

\* C18 witness: with nothing cached, a getAssetWithFallback call raised the
\* DatabaseConnectionError of its last attempt; the flag stayed clear
C18_Witness ==
    \E c \in Calls :
        /\ wrap[c].kind = "fallback" /\ wrap[c].pc = "returned"
        /\ wrap[c].result.name = "DatabaseConnectionError"
        /\ fallbackCache = {}
        /\ ~isOfflineMode
        /\ faults >= maxRetries

----------------------------------------------------------------------------
(* C19: when the client is offline and the store is reachable again, the  *)
(* timer's probe clears the offline flag, whatever assets the store       *)
(* holds: a probe whose last attempt met no store fault leaves the flag   *)
(* clear when it settles.                                                 *)
C19_ReachableStoreClearsOffline ==
    [][\A c \in Calls :
          (ProbeReturns(c) /\ ~call[c].faulted) => ~isOfflineMode']_vars

\* the probe clears the flag when the store holds the pair health-check/test
ProbeClearsOfflineIfPairPublished ==
    [][\A c \in Calls :
          (/\ ProbeReturns(c)
           /\ ~call[c].faulted
           /\ MasterRows(HealthCheckPair[1], HealthCheckPair[2]) # {}) =>
              ~isOfflineMode']_vars

----------------------------------------------------------------------------
\* a step of the timer callback up to its await
TickStep == ticks' # ticks

(* C20: the timer callback probes only while the client is offline and    *)
(* never sets the offline flag.  A tick that finds the flag clear makes   *)
(* no store call and changes nothing; a tick that finds it set starts one *)
(* probe; a probe that failed leaves the flag as it was and a probe never *)
(* changes the fallback map; the flag is set by getAssetWithFallback only.*)
C20_ProbeOnlyWhileOffline ==
    [][/\ (TickStep /\ ~isOfflineMode) =>
             UNCHANGED <<config, maxActive, asset, asset_log, asset_retrieval,
                         now, call, before, calls, okCalls, faults,
                         fallbackCache, isOfflineMode, healthCheckInterval,
                         wrap, clock>>
       /\ (TickStep /\ isOfflineMode) =>
             /\ isOfflineMode'
             /\ fallbackCache' = fallbackCache
             /\ \E c \in Calls : wrap'[c] = Await("probe", "") /\ wrap[c].pc # "await"
       /\ \A c \in Calls :
             (wrap'[c].kind = "probe" /\ wrap[c].kind # "probe") =>
                 (TickStep /\ isOfflineMode)
       /\ \A c \in Calls : ProbeReturns(c) =>
             /\ fallbackCache' = fallbackCache
             /\ ~call[c].result.ok => isOfflineMode' = isOfflineMode
             /\ call[c].result.ok => ~isOfflineMode'
       /\ (isOfflineMode' /\ ~isOfflineMode) =>
             \E c \in Calls : FallbackReturns(c)]_vars

\* C20 witness: the client went offline serving a cached entry, the timer
\* ticked, and its probe failed: the flag is still set, the map as it was
C20_Witness ==
    \E c \in Calls :
        /\ wrap[c].kind = "probe" /\ wrap[c].pc = "returned"
        /\ ~wrap[c].result.ok
        /\ isOfflineMode
        /\ ticks >= 1
        /\ fallbackCache # {}

----------------------------------------------------------------------------
(* The life cycle of the clients: close() and testConnection()            *)

\* the application may call another operation: none of its calls is under way
ApiIdle == api.pc \in {"none", "done"}

ApiCall(op, pc, arg) == [op |-> op, pc |-> pc, arg |-> arg, result |-> NoResult]

\* mutant: close() leaves the timer as it found it
StopTimerForgotten(handle) == handle

\* if (this.healthCheckInterval) { clearInterval(...); this.healthCheckInterval = null; }
StopTimer(handle) == IF handle THEN FALSE ELSE handle

\* ResilientAssetClient.close() up to its await: the timer is stopped, then
\* super.close() calls this.pool.end()
Close ==
    /\ ApiIdle
    /\ healthCheckInterval' = StopTimer(healthCheckInterval)
    /\ poolEnded' = TRUE
    /\ api' = ApiCall("close", "end", <<healthCheckInterval, poolEnded>>)
    /\ UNCHANGED <<config, maxActive, asset, asset_log, asset_retrieval, now,
                   call, before, calls, okCalls, faults,
                   fallbackCache, isOfflineMode, wrap, clock, ticks,
                   configCache, cacheTTL>>

\* close() after await this.pool.end(): a pool ended before refuses or not
CloseReturn ==
    /\ api.op = "close" /\ api.pc = "end"
    /\ \E ok \in IF api.arg[2] THEN BOOLEAN ELSE {TRUE} :
         api' = [api EXCEPT !.pc = "done",
                            !.result = IF ok THEN Ok(<<>>) ELSE StoreFault("end")]
    /\ UNCHANGED <<config, maxActive, asset, asset_log, asset_retrieval, now,
                   call, before, calls, okCalls, faults, resVars,
                   poolEnded, configCache, cacheTTL>>

\* mutant: only the second query decides
AfterTestQueryLastOnly(a, ok) ==
    LET seen == Append(a.arg, ok)
    IN  IF a.pc = "select1"
        THEN [a EXCEPT !.pc = "count", !.arg = seen]
        ELSE [a EXCEPT !.pc = "done", !.arg = seen, !.result = Ok(ok)]

\* testConnection after one of its two awaits: the next query, return true,
\* or the catch: return false
AfterTestQuery(a, ok) ==
    LET seen == Append(a.arg, ok)
    IN  IF ~ok
        THEN [a EXCEPT !.pc = "done", !.arg = seen, !.result = Ok(FALSE)]
        ELSE IF a.pc = "select1"
             THEN [a EXCEPT !.pc = "count", !.arg = seen]
             ELSE [a EXCEPT !.pc = "done", !.arg = seen, !.result = Ok(TRUE)]

\* testConnection up to await this.pool.query('SELECT 1')
TestConnection ==
    /\ ApiIdle
    /\ api' = ApiCall("testConnection", "select1", <<>>)
    /\ UNCHANGED <<config, maxActive, asset, asset_log, asset_retrieval, now,
                   call, before, calls, okCalls, faults, resVars,
                   poolEnded, configCache, cacheTTL>>

\* one of the two queries of testConnection settles
TestQuery ==
    /\ api.op = "testConnection" /\ api.pc \in {"select1", "count"}
    /\ \E ok \in PoolOutcomes :
         /\ PoolFault(ok)
         /\ api' = AfterTestQuery(api, ok)
    /\ UNCHANGED <<config, maxActive, asset, asset_log, asset_retrieval, now,
                   call, before, calls, okCalls, resVars,
                   poolEnded, configCache, cacheTTL>>

----------------------------------------------------------------------------
(* Specification: a ResilientAssetClient from its construction to after   *)
(* close(); the application calls getAssetWithFallback for one pair,      *)
(* importFallbackCache, testConnection and close, one after the other.    *)
(* The consumer has read the pair in an earlier run: it is registered.    *)

InitLifecycle ==
    /\ config = ConcConfig
    /\ maxActive = 1
    /\ InitStore(ResilientStore(FALSE))
    /\ call = [c \in Calls |-> IdleCall]
    /\ before = [c \in Calls |-> Snapshot]
    /\ calls = 0
    /\ faults = 0
    /\ fallbackCache = {}
    /\ isOfflineMode = FALSE
    /\ healthCheckInterval = TRUE
    /\ wrap = [c \in Calls |-> NoWrap]
    /\ clock = 1
    /\ ticks = 0
    /\ InitApi

NextLifecycle ==
    \/ \E c \in Calls : GetAssetWithFallback(c, "org", "cfg/a")
    \/ \E c \in Calls : FallbackReturn(c)
    \/ HealthCheckTick
    \/ \E c \in Calls : HealthCheckReturn(c)
    \/ \E entries \in Snapshots : ImportFallbackCache(entries)
    \/ Close
    \/ CloseReturn
    \/ TestConnection
    \/ TestQuery
    \/ \E c \in Calls : Connect(c)
    \/ \E c \in Calls : Begin(c)
    \/ \E c \in Calls : SelectRegistered(c)
    \/ \E c \in Calls : SelectMaster(c)
    \/ \E c \in Calls : ArchiveToLog(c)
    \/ \E c \in Calls : UpdateRegistration(c)
    \/ \E c \in Calls : LogRetrieval(c)
    \/ \E c \in Calls : Commit(c)
    \/ \E c \in Calls : Rollback(c)
    \/ \E c \in Calls : Delay(c)

SpecLifecycle == InitLifecycle /\ [][NextLifecycle]_vars

----------------------------------------------------------------------------
(* Properties of the life cycle *)

\* the step in which close() runs up to its await
CloseStep == api'.op = "close" /\ api'.pc = "end" /\ api.pc # "end"

\* a probe is started in this step
ProbeStarts == \E c \in Calls : wrap'[c].kind = "probe" /\ wrap'[c].pc = "await"
                                   /\ wrap[c].pc # "await"

(* C21: close() stops the timer no later than it ends the pool: the pool   *)
(* is never ended while the timer is armed; once close() was called no     *)
(* timer callback runs and no probe is started; and close() goes through   *)
(* its timer step and on to pool.end() also when the handle is null        *)
(* already.                                                                *)
C21_CloseStopsTimerFirst ==
    [][/\ poolEnded' => ~healthCheckInterval'
       /\ poolEnded => (~ProbeStarts /\ ticks' = ticks)
       /\ CloseStep => (~healthCheckInterval' /\ poolEnded'
                        /\ fallbackCache' = fallbackCache
                        /\ isOfflineMode' = isOfflineMode)]_vars

\* C21 witness: close() was called a second time, with the handle null
\* already, while the client was offline and the timer had not yet run
C21_Witness ==
    /\ api.op = "close" /\ api.pc = "done"
    /\ api.arg = <<FALSE, TRUE>>
    /\ isOfflineMode
    /\ ticks = 0
    /\ ~healthCheckInterval

\* a step of testConnection: its call, or one of its queries settling
TestConnectionStep == api'.op = "testConnection" /\ api' # api

(* C27: testConnection never raises and only reads: it returns true       *)
(* exactly when both of its queries went through, false when the first or *)
(* the second failed, and none of its steps changes a table.              *)
C27_TestConnectionReadsOnly ==
    [][TestConnectionStep =>
         /\ <<asset, asset_log, asset_retrieval>>' = <<asset, asset_log, asset_retrieval>>
         /\ api'.pc = "done" =>
              /\ api'.result.ok
              /\ api'.result.value \in BOOLEAN
              /\ api'.result.value <=> (api'.arg = <<TRUE, TRUE>>)
              /\ api'.arg \in {<<TRUE, TRUE>>, <<TRUE, FALSE>>, <<FALSE>>}]_vars

\* C27 witness: the first query went through, the second failed on a store
\* that getAsset calls had written to: testConnection returned false
C27_Witness ==
    /\ api.op = "testConnection" /\ api.pc = "done"
    /\ api.arg = <<TRUE, FALSE>>
    /\ api.result = Ok(FALSE)
    /\ Len(asset_retrieval) > 1
    /\ ~poolEnded

----------------------------------------------------------------------------
(* preloadAssets *)

\* the lists of pairs the application preloads
PreloadLists ==
    {<<>>} \cup {<<p>> : p \in FallbackPairs}
           \cup {<<p, q>> : p \in FallbackPairs, q \in FallbackPairs}

\* the call slots of the getAssetWithFallback calls of a preload
PreloadSlots(assets) == 1..Len(assets)

\* mutant: Promise.all, which rejects with the first rejection
SettledAll(results) ==
    IF \E i \in DOMAIN results : ~results[i].ok
    THEN LET i == CHOOSE j \in DOMAIN results : ~results[j].ok IN results[i]
    ELSE Ok(0)

\* Promise.allSettled, then the count of the rejected results: preloadAssets
\* returns nothing; the count is what it logs
Settled(results) == Ok(Cardinality({i \in DOMAIN results : ~results[i].ok}))

\* preloadAssets up to await Promise.allSettled(...): assets.map starts
\* getAssetWithFallback for every listed pair, each up to its first await
PreloadAssets(assets) ==
    /\ ApiIdle
    /\ Free = Calls
    /\ Len(assets) <= Cardinality(Calls)
    /\ calls + Len(assets) <= MaxCalls
    /\ calls' = calls + Len(assets)
    /\ before' = [c \in Calls |->
                     IF c \in PreloadSlots(assets) THEN Snapshot ELSE before[c]]
    /\ call' = [c \in Calls |->
                   IF c \in PreloadSlots(assets)
                   THEN Entered("svc", Str(assets[c][1]), Str(assets[c][2]))
                   ELSE call[c]]
    /\ wrap' = [c \in Calls |->
                   IF c \in PreloadSlots(assets)
                   THEN Await("fallback", CacheKey(assets[c][1], assets[c][2]))
                   ELSE wrap[c]]
    /\ api' = ApiCall("preloadAssets", "allSettled", assets)
    /\ UNCHANGED <<config, maxActive, asset, asset_log, asset_retrieval, now,
                   okCalls, faults, fallbackCache, isOfflineMode,
                   healthCheckInterval, clock, ticks,
                   poolEnded, configCache, cacheTTL>>

\* preloadAssets after the await: every getAssetWithFallback has settled
PreloadReturn ==
    /\ api.op = "preloadAssets" /\ api.pc = "allSettled"
    /\ \A c \in PreloadSlots(api.arg) : wrap[c].pc = "returned"
    /\ api' = [api EXCEPT !.pc = "done",
                          !.result = Settled([c \in PreloadSlots(api.arg) |->
                                                 wrap[c].result])]
    /\ UNCHANGED <<config, maxActive, asset, asset_log, asset_retrieval, now,
                   call, before, calls, okCalls, faults, resVars,
                   poolEnded, configCache, cacheTTL>>

----------------------------------------------------------------------------
(* Specification: a ResilientAssetClient whose application preloads lists *)
(* of pairs; the getAssetWithFallback calls of one list overlap.          *)

InitPreload ==
    /\ config = ConcConfig
    /\ maxActive = Cardinality(Calls)
    /\ InitStore(ResilientStore(FALSE))
    /\ call = [c \in Calls |-> IdleCall]
    /\ before = [c \in Calls |-> Snapshot]
    /\ calls = 0
    /\ faults = 0
    /\ fallbackCache = {}
    /\ isOfflineMode = FALSE
    /\ healthCheckInterval = TRUE
    /\ wrap = [c \in Calls |-> NoWrap]
    /\ clock = 1
    /\ ticks = 0
    /\ InitApi

NextPreload ==
    \/ \E assets \in PreloadLists : PreloadAssets(assets)
    \/ PreloadReturn
    \/ \E c \in Calls : FallbackReturn(c)
    \/ \E c \in Calls : Connect(c)
    \/ \E c \in Calls : Begin(c)
    \/ \E c \in Calls : SelectRegistered(c)
    \/ \E c \in Calls : SelectMaster(c)
    \/ \E c \in Calls : CreateRegistration(c)
    \/ \E c \in Calls : ArchiveToLog(c)
    \/ \E c \in Calls : UpdateRegistration(c)
    \/ \E c \in Calls : LogRetrieval(c)
    \/ \E c \in Calls : Commit(c)
    \/ \E c \in Calls : Rollback(c)
    \/ \E c \in Calls : Delay(c)

SpecPreload == InitPreload /\ [][NextPreload]_vars

----------------------------------------------------------------------------
(* Properties of preloadAssets *)

\* the step in which preloadAssets returns
PreloadReturns == api.op = "preloadAssets" /\ api.pc = "allSettled" /\ api'.pc = "done"

(* C22: preloadAssets never raises: it returns when the                   *)
(* getAssetWithFallback call of every listed pair has settled, the        *)
(* payload of every pair that was fetched is then in the fallback map     *)
(* under the pair's key whatever became of the other pairs, and the       *)
(* failures are only counted.                                             *)
C22_PreloadKeepsEveryFetchedPair ==
    [][PreloadReturns =>
         /\ api'.result.ok
         /\ \A c \in PreloadSlots(api.arg) :
               /\ wrap[c].pc = "returned"
               /\ wrap[c].result.ok =>
                    \E e \in fallbackCache :
                        e.key = wrap[c].cacheKey /\ e.data = wrap[c].result.value
         /\ api'.result.value =
               Cardinality({c \in PreloadSlots(api.arg) : ~wrap[c].result.ok})
         /\ UNCHANGED <<fallbackCache, isOfflineMode>>]_vars

\* supporting property: preloadAssets never raises, waits for every call,
\* counts the failures, and the map holds an entry under the key of every
\* pair that was fetched; a failed call changes no entry
PreloadNeverRaises ==
    [][/\ PreloadReturns =>
            /\ api'.result.ok
            /\ \A c \in PreloadSlots(api.arg) :
                  /\ wrap[c].pc = "returned"
                  /\ wrap[c].result.ok => \E e \in fallbackCache : e.key = wrap[c].cacheKey
            /\ api'.result.value =
                  Cardinality({c \in PreloadSlots(api.arg) : ~wrap[c].result.ok})
            /\ UNCHANGED <<fallbackCache, isOfflineMode>>
       /\ \A c \in Calls :
             (FallbackReturns(c) /\ ~call[c].result.ok) => fallbackCache' = fallbackCache]_vars

\* a preload of two pairs returned after one was fetched and the other failed
PreloadPartlyFailed ==
    /\ api.op = "preloadAssets" /\ api.pc = "done"
    /\ api.result = Ok(1)
    /\ Len(api.arg) = 2
    /\ Cardinality(fallbackCache) = 1

----------------------------------------------------------------------------
(* The operations on the fallback map: getFallbackStatus,                 *)
(* clearFallbackCache, exportFallbackCache, importFallbackCache           *)

\* a synchronous operation: called and returned within one step
ApiDone(op, arg, result) == [op |-> op, pc |-> "done", arg |-> arg, result |-> result]

GetFallbackStatus ==
    /\ ApiIdle
    /\ api' = ApiDone("getFallbackStatus", <<>>,
                      Ok(getFallbackStatus(fallbackCache, isOfflineMode)))
    /\ UNCHANGED <<config, maxActive, asset, asset_log, asset_retrieval, now,
                   call, before, calls, okCalls, faults, resVars,
                   poolEnded, configCache, cacheTTL>>

ClearFallbackCache(assetKey) ==
    /\ ApiIdle
    /\ fallbackCache' = clearFallbackCache(fallbackCache, assetKey)
    /\ api' = ApiDone("clearFallbackCache", <<assetKey>>, Ok(<<>>))
    /\ UNCHANGED <<config, maxActive, asset, asset_log, asset_retrieval, now,
                   call, before, calls, okCalls, faults,
                   isOfflineMode, healthCheckInterval, wrap, clock, ticks,
                   poolEnded, configCache, cacheTTL>>

ExportFallbackCache ==
    /\ ApiIdle
    /\ api' = ApiDone("exportFallbackCache", <<>>, exportFallbackCache(fallbackCache))
    /\ UNCHANGED <<config, maxActive, asset, asset_log, asset_retrieval, now,
                   call, before, calls, okCalls, faults, resVars,
                   poolEnded, configCache, cacheTTL>>

\* importFallbackCache with any text
ImportSnapshot(data) ==
    /\ ApiIdle
    /\ LET r == importFallbackCache(fallbackCache, data)
       IN  /\ fallbackCache' = r.cache
           /\ api' = ApiDone("importFallbackCache", <<data>>, r.result)
    /\ UNCHANGED <<config, maxActive, asset, asset_log, asset_retrieval, now,
                   call, before, calls, okCalls, faults,
                   isOfflineMode, healthCheckInterval, wrap, clock, ticks,
                   poolEnded, configCache, cacheTTL>>

----------------------------------------------------------------------------
(* Specification: a ResilientAssetClient whose application reads one pair *)
(* through getAssetWithFallback and, between and during the reads,        *)
(* inspects, clears, exports and imports the fallback map.  The consumer  *)
(* has read the pair in an earlier run: it is registered.                 *)

\* entries a snapshot file may hold
EntryA == [key |-> CacheKey("org", "cfg/a"), data |-> Content(1).data,
           lastUpdated |-> ToISOString(ValidDate(0))]
EntryEmptyKey == [key |-> "", data |-> Content(MaxVersion).data,
                  lastUpdated |-> ToISOString(ValidDate(0))]
EntryUndated == [key |-> "k", data |-> Content(1).data,
                 lastUpdated |-> <<"yesterday", 0>>]

\* the texts the application hands to importFallbackCache
SnapshotTexts ==
    {Unparseable, JSONText(JNull), JSONText(JObject)}
    \cup {JSONText(JArray(items)) :
            items \in {<<>>, <<EntryA>>, <<EntryA, EntryEmptyKey>>,
                       <<EntryA, JNull>>, <<EntryA, EntryUndated>>}}

\* the text of the latest export, if that is the latest operation
Exported ==
    IF api.op = "exportFallbackCache" /\ api.result.ok THEN {api.result.value} ELSE {}

\* the arguments the application hands to clearFallbackCache
ClearArgs == {Undefined, Str(""), Str(CacheKey("org", "cfg/a")), Str("k")}

InitCacheOps ==
    /\ config = [maxRetries |-> {TestNoRetries}, retryDelay |-> {}]
    /\ maxActive = 1
    /\ InitStore(ResilientStore(FALSE))
    /\ call = [c \in Calls |-> IdleCall]
    /\ before = [c \in Calls |-> Snapshot]
    /\ calls = 0
    /\ faults = 0
    /\ fallbackCache = {}
    /\ isOfflineMode = FALSE
    /\ healthCheckInterval = TRUE
    /\ wrap = [c \in Calls |-> NoWrap]
    /\ clock = 1
    /\ ticks = 0
    /\ InitApi

NextCacheOps ==
    \/ \E c \in Calls : GetAssetWithFallback(c, "org", "cfg/a")
    \/ \E c \in Calls : FallbackReturn(c)
    \/ GetFallbackStatus
    \/ \E assetKey \in ClearArgs : ClearFallbackCache(assetKey)
    \/ ExportFallbackCache
    \/ \E data \in SnapshotTexts \cup Exported : ImportSnapshot(data)
    \/ \E c \in Calls : Connect(c)
    \/ \E c \in Calls : Begin(c)
    \/ \E c \in Calls : SelectRegistered(c)
    \/ \E c \in Calls : SelectMaster(c)
    \/ \E c \in Calls : ArchiveToLog(c)
    \/ \E c \in Calls : UpdateRegistration(c)
    \/ \E c \in Calls : LogRetrieval(c)
    \/ \E c \in Calls : Commit(c)
    \/ \E c \in Calls : Rollback(c)

SpecCacheOps == InitCacheOps /\ [][NextCacheOps]_vars

----------------------------------------------------------------------------
(* Properties of the operations on the fallback map *)

\* the step in which the named operation is called and returns
ApiStep(op) == api'.op = op /\ api'.pc = "done" /\ api' # api

(* C23: getFallbackStatus only reads: it returns the offline flag as it   *)
(* is and one detail, key and lastUpdated, for every entry of the map;    *)
(* cachedAssets is the number of details and the number of entries; the   *)
(* map and the flag are as before the call.                               *)
C23_StatusIsPureRead ==
    [][ApiStep("getFallbackStatus") =>
         LET status == api'.result.value
             details == status.cacheDetails
         IN  /\ api'.result.ok
             /\ status.isOffline = isOfflineMode
             /\ {details[i] : i \in DOMAIN details} =
                   {[key |-> e.key, lastUpdated |-> e.lastUpdated] : e \in fallbackCache}
             /\ status.cachedAssets = Len(details)
             /\ status.cachedAssets = Cardinality(fallbackCache)
             /\ UNCHANGED <<fallbackCache, isOfflineMode>>]_vars

\* C23 witness: the status of an offline client whose map holds two entries
C23_Witness ==
    /\ api.op = "getFallbackStatus"
    /\ api.result.ok
    /\ api.result.value.isOffline
    /\ api.result.value.cachedAssets = 2
    /\ Cardinality(fallbackCache) = 2
    /\ isOfflineMode

(* C24: clearFallbackCache with a key removes the entry stored under that *)
(* key and no other entry, whatever key of the map it is given;           *)
(* clearFallbackCache without argument empties the map; neither changes   *)
(* the offline flag.                                                      *)
C24_ClearRemovesExactlyTheKey ==
    [][ApiStep("clearFallbackCache") =>
         LET assetKey == api'.arg[1]
         IN  /\ api'.result.ok
             /\ assetKey.type = "string" =>
                   fallbackCache' = {e \in fallbackCache : e.key # assetKey.val}
             /\ assetKey = Undefined => fallbackCache' = {}
             /\ isOfflineMode' = isOfflineMode]_vars

\* supporting property: the claim holds for every key but the empty string
ClearRemovesExactlyNonEmptyKey ==
    [][ApiStep("clearFallbackCache") =>
         LET assetKey == api'.arg[1]
         IN  /\ api'.result.ok
             /\ (assetKey.type = "string" /\ assetKey.val # "") =>
                   fallbackCache' = {e \in fallbackCache : e.key # assetKey.val}
             /\ assetKey = Undefined => fallbackCache' = {}
             /\ isOfflineMode' = isOfflineMode]_vars

\* a key was cleared from a map of two entries while the client was offline
ClearedOneOfTwo ==
    /\ api.op = "clearFallbackCache"
    /\ api.arg = <<Str(CacheKey("org", "cfg/a"))>>
    /\ fallbackCache = {[key |-> "", data |-> Content(MaxVersion).data,
                         lastUpdated |-> ValidDate(0)]}
    /\ isOfflineMode

\* an item of a snapshot that is an entry with a time that Date can read
ValidEntry(item) == ~IsNull(item) /\ ParseDate(item.lastUpdated).valid

\* a text that parses to a list of valid entries
WellFormed(data) ==
    /\ JSONParse(data).ok
    /\ IsArray(JSONParse(data).value)
    /\ \A i \in DOMAIN JSONParse(data).value.items :
          ValidEntry(JSONParse(data).value.items[i])

\* the map that holds the entries of a well-formed snapshot and no other
MapOf(data) ==
    LET items == JSONParse(data).value.items
    IN  {[key |-> items[i].key, data |-> items[i].data,
          lastUpdated |-> ParseDate(items[i].lastUpdated)] : i \in DOMAIN items}

(* C25: importFallbackCache is all-or-nothing: a well-formed snapshot     *)
(* replaces the whole map; a malformed one - a text that does not parse,  *)
(* a parsed value that is no list, a list with an invalid entry after     *)
(* valid ones - raises an error that says the import failed and leaves    *)
(* the map as it was before the call.                                     *)
C25_ImportAllOrNothing ==
    [][ApiStep("importFallbackCache") =>
         LET data == api'.arg[1]
         IN  IF WellFormed(data)
             THEN api'.result.ok /\ fallbackCache' = MapOf(data)
             ELSE /\ ~api'.result.ok
                  /\ api'.result.msg[1] = "Failed to import fallback cache"
                  /\ fallbackCache' = fallbackCache]_vars

\* supporting property: what holds of the claim: a well-formed snapshot
\* replaces the whole map, and a text that does not parse raises the error
\* and leaves the map as it was
ImportReplacesOrRejectsUnparseable ==
    [][ApiStep("importFallbackCache") =>
         LET data == api'.arg[1]
         IN  /\ isOfflineMode' = isOfflineMode
             /\ WellFormed(data) => (api'.result.ok /\ fallbackCache' = MapOf(data))
             /\ ~JSONParse(data).ok =>
                   /\ ~api'.result.ok
                   /\ api'.result.msg[1] = "Failed to import fallback cache"
                   /\ fallbackCache' = fallbackCache]_vars

\* a text that does not parse was refused, the map of two entries was kept
UnparseableRefused ==
    /\ api.op = "importFallbackCache"
    /\ api.arg = <<Unparseable>>
    /\ ~api.result.ok
    /\ Cardinality(fallbackCache) = 2

\* maps of a client that imports: empty, the exporter's own, another one
ImportingMaps ==
    {{}, fallbackCache,
     {[key |-> "other", data |-> Content(1).data, lastUpdated |-> ValidDate(1)]}}

\* importing the text gives a client exactly the map M
RoundTrip(M, text) ==
    \A N \in ImportingMaps :
        importFallbackCache(N, text) = [cache |-> M, result |-> Ok(<<>>)]

(* C26: whatever fallback map the client has reached, exportFallbackCache *)
(* returns a text that importFallbackCache turns, in any client, into a   *)
(* map of exactly the same keys with the same payloads and last-updated   *)
(* times; the export changes no state.                                    *)
C26_ExportImportRoundTrip ==
    [][ApiStep("exportFallbackCache") =>
         /\ api'.result.ok
         /\ RoundTrip(fallbackCache, api'.result.value)
         /\ UNCHANGED <<fallbackCache, isOfflineMode>>]_vars

\* supporting property: the round trip holds for every map whose entries
\* all have a valid time; on any other map the export raises and changes
\* nothing
RoundTripOfDatedMaps ==
    [][ApiStep("exportFallbackCache") =>
         /\ UNCHANGED <<fallbackCache, isOfflineMode>>
         /\ IF \A e \in fallbackCache : e.lastUpdated.valid
            THEN api'.result.ok /\ RoundTrip(fallbackCache, api'.result.value)
            ELSE api'.result.name = "RangeError"]_vars

\* the text exported from a map of two entries, one written by a fetch,
\* was imported after the map had been cleared
ExportedTextImported ==
    /\ api.op = "importFallbackCache"
    /\ api.result.ok
    /\ api.arg[1] \notin SnapshotTexts
    /\ Cardinality(fallbackCache) = 2
    /\ \E e \in fallbackCache : e.lastUpdated.valid /\ e.lastUpdated.t > 0

----------------------------------------------------------------------------
(* Connectivity failures and the resilience layer *)

\* the last attempt of the call of slot c failed on a connection it held
FailedAfterConnect(c) ==
    call[c].faulted /\ call[c].statements >= 1 /\ ~call[c].result.ok

\* every attempt was made and the delays between them were waited
RetriedWithBackoff(c) ==
    /\ call[c].attempts = maxRetries
    /\ Len(call[c].delays) = maxRetries - 1
    /\ \A n \in DOMAIN call[c].delays : call[c].delays[n] = retryDelay * n

(* C28: a connection that cannot be acquired is retried like any other    *)
(* failure, up to maxRetries attempts with backoff, and then reaches      *)
(* getAssetWithFallback as a DatabaseConnectionError, on which a client   *)
(* with an entry for the pair goes offline and serves it; a failure on a  *)
(* connection that was acquired, a connection lost in mid-transaction     *)
(* included, is an AssetUpdateError and leaves the offline flag as it is. *)
C28_ConnectivityClassSetsOffline ==
    [][\A c \in Calls :
          (FallbackReturns(c) /\ ~call[c].result.ok) =>
              /\ ConnectFailedLast(c) =>
                    /\ call[c].result.name = "DatabaseConnectionError"
                    /\ RetriedWithBackoff(c)
                    /\ EntryOf(fallbackCache, PairOf(c)) # {} =>
                          /\ isOfflineMode'
                          /\ wrap'[c].result.ok
              /\ FailedAfterConnect(c) =>
                    /\ call[c].result.name = "AssetUpdateError"
                    /\ RetriedWithBackoff(c)
                    /\ isOfflineMode' = isOfflineMode]_vars

\* supporting property: what holds of the claim: the connect failure is
\* retried and arrives as a DatabaseConnectionError, which sets the flag
\* when the entry of the pair can be served; a failure on an acquired
\* connection arrives as an AssetUpdateError, or as the error of a ROLLBACK
\* that failed too, and never sets the flag
ConnectFailureAloneSetsOffline ==
    [][\A c \in Calls :
          (FallbackReturns(c) /\ ~call[c].result.ok) =>
              /\ ConnectFailedLast(c) =>
                    /\ call[c].result.name = "DatabaseConnectionError"
                    /\ RetriedWithBackoff(c)
                    /\ (\E e \in EntryOf(fallbackCache, PairOf(c)) : e.lastUpdated.valid) =>
                          /\ isOfflineMode'
                          /\ wrap'[c].result.ok
              /\ FailedAfterConnect(c) =>
                    /\ call[c].result.name \in {"AssetUpdateError", "Error"}
                    /\ (call[c].result.name = "Error") <=> (call[c].ended = "rollback failed")
                    /\ RetriedWithBackoff(c)
                    /\ isOfflineMode' = isOfflineMode]_vars

\* a call whose last attempt lost its connection in mid-transaction was
\* served from the map, the client stayed online
ServedAfterUpdateFailure ==
    \E c \in Calls :
        /\ wrap[c].kind = "fallback" /\ wrap[c].pc = "returned"
        /\ wrap[c].result.ok
        /\ ~isOfflineMode
        /\ faults >= 1
        /\ okCalls = 1
        /\ calls >= 1

----------------------------------------------------------------------------
(* Specification: a ResilientAssetClient under concurrent use: two        *)
(* getAssetWithFallback calls that overlap, the timer's probe, and        *)
(* clearFallbackCache and importFallbackCache called while they await.    *)

\* the pair each of the overlapping calls reads
PairOfSlot(c) == IF c = 1 THEN <<"org", "cfg/a">> ELSE <<"org/cfg", "a">>

\* the arguments and texts of the concurrent clearFallbackCache and
\* importFallbackCache calls
ConcClearArgs == {Undefined, Str(CacheKey("org", "cfg/a"))}
ConcSnapshotTexts == {JSONText(JArray(<<EntryA>>)), JSONText(JArray(<<EntryUndated>>))}

InitResilientConc ==
    /\ config = [maxRetries |-> {TestNoRetries}, retryDelay |-> {}]
    /\ maxActive = Cardinality(Calls)
    /\ InitStore(ResilientStore(FALSE))
    /\ call = [c \in Calls |-> IdleCall]
    /\ before = [c \in Calls |-> Snapshot]
    /\ calls = 0
    /\ faults = 0
    /\ fallbackCache = {}
    /\ isOfflineMode = FALSE
    /\ healthCheckInterval = TRUE
    /\ wrap = [c \in Calls |-> NoWrap]
    /\ clock = 1
    /\ ticks = 0
    /\ InitApi

NextResilientConc ==
    \/ \E c \in Calls :
          /\ wrap[c].kind = "none"
          /\ GetAssetWithFallback(c, PairOfSlot(c)[1], PairOfSlot(c)[2])
    \/ \E c \in Calls : FallbackReturn(c)
    \/ HealthCheckTick
    \/ \E c \in Calls : HealthCheckReturn(c)
    \/ \E assetKey \in ConcClearArgs : ClearFallbackCache(assetKey)
    \/ \E data \in ConcSnapshotTexts : ImportSnapshot(data)
    \/ \E c \in Calls : Connect(c)
    \/ \E c \in Calls : Begin(c)
    \/ \E c \in Calls : SelectRegistered(c)
    \/ \E c \in Calls : SelectMaster(c)
    \/ \E c \in Calls : CreateRegistration(c)
    \/ \E c \in Calls : ArchiveToLog(c)
    \/ \E c \in Calls : UpdateRegistration(c)
    \/ \E c \in Calls : LogRetrieval(c)
    \/ \E c \in Calls : Commit(c)
    \/ \E c \in Calls : Rollback(c)

SpecResilientConc == InitResilientConc /\ [][NextResilientConc]_vars

----------------------------------------------------------------------------
(* Properties of the resilience layer under concurrent use *)

\* the step in which the getAssetWithFallback call of slot c returns what
\* it fetched
Fetched(c) == FallbackReturns(c) /\ call[c].result.ok

\* the steps of clearFallbackCache and of importFallbackCache
ClearStep == api'.op = "clearFallbackCache" /\ call' = call /\ wrap' = wrap /\ ticks' = ticks
ImportStep == api'.op = "importFallbackCache" /\ call' = call /\ wrap' = wrap /\ ticks' = ticks

(* C29: the steps of concurrent getAssetWithFallback calls, of            *)
(* clearFallbackCache and importFallbackCache calls and of the timer's    *)
(* probes take effect one at a time on the state as it then is: every     *)
(* entry that appears in the map is, payload and time together, the write *)
(* of one fetch that returned or of one import; an entry disappears or    *)
(* changes only by a write to its key, a clear or an import; the write of *)
(* every step that completes is in the state after it; and the offline    *)
(* flag changes only where a call or a probe returns.                     *)
C29_SharedStateSerialized ==
    [][/\ \A e \in fallbackCache' \ fallbackCache :
             \/ \E c \in Calls :
                   /\ Fetched(c)
                   /\ e = [key |-> wrap[c].cacheKey, data |-> call[c].result.value,
                           lastUpdated |-> ValidDate(clock)]
             \/ ImportStep /\ e \in MapOf(api'.arg[1])
       /\ \A e \in fallbackCache \ fallbackCache' :
             \/ \E c \in Calls : Fetched(c) /\ wrap[c].cacheKey = e.key
             \/ ImportStep
             \/ ClearStep /\ (api'.arg[1] = Undefined \/ api'.arg[1].val = e.key)
       /\ \A c \in Calls :
             /\ Fetched(c) =>
                   /\ [key |-> wrap[c].cacheKey, data |-> call[c].result.value,
                       lastUpdated |-> ValidDate(clock)] \in fallbackCache'
                   /\ ~isOfflineMode'
             /\ (ProbeReturns(c) /\ call[c].result.ok) => ~isOfflineMode'
             /\ (/\ FallbackReturns(c)
                 /\ call[c].result.name = "DatabaseConnectionError"
                 /\ \E e \in fallbackCache : e.key = wrap[c].cacheKey /\ e.lastUpdated.valid)
                   => isOfflineMode'
       /\ ImportStep => fallbackCache' = MapOf(api'.arg[1])
       /\ isOfflineMode' # isOfflineMode =>
             \E c \in Calls : FallbackReturns(c) \/ ProbeReturns(c)]_vars

\* C29 witness: while both calls awaited a snapshot was imported; the
\* first call then returned what it fetched and both entries are in the
\* map, the second call still awaiting
C29_Witness ==
    /\ wrap[1].kind = "fallback" /\ wrap[1].pc = "returned" /\ wrap[1].result.ok
    /\ wrap[2].kind = "fallback" /\ wrap[2].pc = "await"
    /\ api.op = "importFallbackCache"
    /\ Cardinality(fallbackCache) = 2
    /\ \E e \in fallbackCache : e.key = wrap[1].cacheKey /\ e.data = wrap[1].result.value

----------------------------------------------------------------------------
(* ConfigurationManager (src/src/managers/ConfigurationManager.ts)        *)

MaxTTL == 2          \* largest cacheTTL the application sets
MaxTime == 4         \* how far the manager's clock runs

\* a config path: its segments between the slashes and the extension of
\* the last one
ConfigPath(segments, ext) == [segments |-> segments, ext |-> ext]

RECURSIVE Join(_)
Join(segments) ==
    IF Len(segments) = 0 THEN ""
    ELSE IF Len(segments) = 1 THEN segments[1]
    ELSE segments[1] \o "/" \o Join(Tail(segments))

\* the path as the application writes it
PathText(path) ==
    Join(path.segments) \o (IF path.ext = "" THEN "" ELSE "." \o path.ext)

\* const [registry, ...pathParts] = configPath.split('/')
RegistryUrl(path) == "github.com/" \o path.segments[1]
AssetKeyOf(path) ==
    Join(Tail(path.segments)) \o (IF path.ext = "" THEN "" ELSE "." \o path.ext)

\* the paths the application asks for
AppConfig == ConfigPath(<<"myorg", "configs", "app">>, "json")
FlagsConfig == ConfigPath(<<"myorg", "configs", "features">>, "json")
InvalidPath == ConfigPath(<<"invalid-path">>, "")
ConfigPaths == {AppConfig, FlagsConfig, InvalidPath}

\* parseConfigData: by the extension of the asset key
parseConfigData(ext, data) ==
    IF ext = "json" THEN <<"JSON.parse", data>>
    ELSE IF ext \in {"yaml", "yml"} THEN <<"parseYaml", data>>
    ELSE IF ext = "properties" THEN <<"parseProperties", data>>
    ELSE data

\* mutant: an entry is fresh up to and including the age cacheTTL
FreshInclusive(entry, time, ttl) == time - entry.timestamp <= ttl

\* cached && Date.now() - cached.timestamp < this.cacheTTL
Fresh(entry, time, ttl) == time - entry.timestamp < ttl

\* this.cache.get and this.cache.set
ConfigGet(entries, key) == {e \in entries : e.key = key}
ConfigSet(entries, key, data, timestamp) ==
    {e \in entries : e.key # key}
    \cup {[key |-> key, data |-> data, timestamp |-> timestamp]}

ConfigAwait(path) ==
    [kind |-> "config", pc |-> "await", cacheKey |-> PathText(path), result |-> NoResult]
ConfigReturned(path, result) ==
    [kind |-> "config", pc |-> "returned", cacheKey |-> PathText(path), result |-> result]

\* getConfig up to its first await: the cached value while it is fresh, the
\* error of a path without a slash, or await this.assetClient.getAsset(...)
EnterGetConfig(c, path) ==
    LET cached == ConfigGet(configCache, PathText(path))
    IN  /\ c \in Free
        /\ \A y \in Free : c <= y
        /\ IF \E e \in cached : Fresh(e, clock, cacheTTL)
           THEN /\ wrap' = [wrap EXCEPT ![c] =
                       ConfigReturned(path, Ok((CHOOSE e \in cached : TRUE).data))]
                /\ UNCHANGED <<config, maxActive, asset, asset_log, asset_retrieval,
                               now, call, before, calls, okCalls, faults>>
           ELSE IF Len(path.segments) = 1
           THEN /\ wrap' = [wrap EXCEPT ![c] =
                       ConfigReturned(path, Err("Error", <<"Invalid config path",
                                                           PathText(path)>>))]
                /\ UNCHANGED <<config, maxActive, asset, asset_log, asset_retrieval,
                               now, call, before, calls, okCalls, faults>>
           ELSE /\ calls < MaxCalls
                /\ calls' = calls + 1
                /\ EnterGetAsset(c, "svc", Str(RegistryUrl(path)), Str(AssetKeyOf(path)))
                /\ wrap' = [wrap EXCEPT ![c] = ConfigAwait(path)]
        /\ UNCHANGED <<fallbackCache, isOfflineMode, healthCheckInterval, clock, ticks>>

\* the application calls getConfig
GetConfig(c, path) ==
    /\ EnterGetConfig(c, path)
    /\ UNCHANGED apiVars

\* getConfig after the await: parse, this.cache.set with Date.now(), return;
\* an error of getAsset passes through
ConfigReturn(c) ==
    LET s == call[c]
        w == wrap[c]
        path == CHOOSE p \in ConfigPaths : PathText(p) = w.cacheKey
    IN  /\ w.kind = "config" /\ w.pc = "await"
        /\ s.pc = "done"
        /\ IF s.result.ok
           THEN LET parsed == parseConfigData(path.ext, s.result.value)
                IN  /\ configCache' = ConfigSet(configCache, w.cacheKey, parsed, clock)
                    /\ wrap' = [wrap EXCEPT ![c] = [w EXCEPT !.pc = "returned",
                                                             !.result = Ok(parsed)]]
           ELSE /\ configCache' = configCache
                /\ wrap' = [wrap EXCEPT ![c] = [w EXCEPT !.pc = "returned",
                                                         !.result = s.result]]
        /\ call' = [call EXCEPT ![c] = IdleCall]
        /\ UNCHANGED <<config, maxActive, asset, asset_log, asset_retrieval, now,
                       before, calls, okCalls, faults,
                       fallbackCache, isOfflineMode, healthCheckInterval, clock, ticks,
                       poolEnded, api, cacheTTL>>

\* mutant: clearCache evicts every path whatever its argument
clearCacheOfAll(entries, configPath) == {}

\* clearCache: this.cache.delete(configPath) if (configPath), else
\* this.cache.clear()
clearCache(entries, configPath) ==
    IF Truthy(configPath)
    THEN {e \in entries : e.key # configPath.val}
    ELSE {}

\* the application calls clearCache
ClearCache(configPath) ==
    /\ configCache' = clearCache(configCache, configPath)
    /\ api' = ApiDone("clearCache", <<configPath>>, Ok(Undefined))
    /\ UNCHANGED <<config, maxActive, asset, asset_log, asset_retrieval, now,
                   call, before, calls, okCalls, faults, resVars,
                   poolEnded, cacheTTL>>

SetCacheTTL(ttl) ==
    /\ cacheTTL' = ttl
    /\ UNCHANGED <<config, maxActive, asset, asset_log, asset_retrieval, now,
                   call, before, calls, okCalls, faults, resVars,
                   poolEnded, api, configCache>>

\* time passes on the manager's clock (Date.now())
Pass ==
    /\ clock < MaxTime
    /\ clock' = clock + 1
    /\ UNCHANGED <<config, maxActive, asset, asset_log, asset_retrieval, now,
                   call, before, calls, okCalls, faults,
                   fallbackCache, isOfflineMode, healthCheckInterval, wrap, ticks,
                   apiVars>>

----------------------------------------------------------------------------
(* Specification: a ConfigurationManager whose application asks for one   *)
(* configuration again and again while time passes; the configuration was *)
(* published once and is not republished.                                 *)

\* the values of cacheTTL the application sets: no caching, the longest
TTLs == {0, MaxTTL}

\* the configuration was published, no consumer has read it
ConfigStore ==
    [asset |-> {Row(1, 1, NULL, RegistryUrl(AppConfig), AssetKeyOf(AppConfig), Content(1))},
     asset_log |-> <<>>, asset_retrieval |-> <<>>, now |-> 2]

InitConfig ==
    /\ config = [maxRetries |-> {TestNoRetries}, retryDelay |-> {}]
    /\ maxActive = 1
    /\ InitStore(ConfigStore)
    /\ call = [c \in Calls |-> IdleCall]
    /\ before = [c \in Calls |-> Snapshot]
    /\ calls = 0
    /\ faults = 0
    /\ fallbackCache = {}
    /\ isOfflineMode = FALSE
    /\ healthCheckInterval = FALSE
    /\ wrap = [c \in Calls |-> NoWrap]
    /\ clock = 1
    /\ ticks = 0
    /\ poolEnded = FALSE
    /\ api = NoApi
    /\ configCache = {}
    /\ cacheTTL \in TTLs

NextConfig ==
    \/ \E c \in Calls, path \in {AppConfig, InvalidPath} : GetConfig(c, path)
    \/ \E c \in Calls : ConfigReturn(c)
    \/ \E configPath \in {Undefined, Str(PathText(AppConfig))} : ClearCache(configPath)
    \/ \E ttl \in TTLs : SetCacheTTL(ttl)
    \/ Pass
    \/ \E c \in Calls : Connect(c)
    \/ \E c \in Calls : Begin(c)
    \/ \E c \in Calls : SelectRegistered(c)
    \/ \E c \in Calls : SelectMaster(c)
    \/ \E c \in Calls : CreateRegistration(c)
    \/ \E c \in Calls : LogRetrieval(c)
    \/ \E c \in Calls : Commit(c)
    \/ \E c \in Calls : Rollback(c)

SpecConfig == InitConfig /\ [][NextConfig]_vars

----------------------------------------------------------------------------
(* Properties of ConfigurationManager *)

\* the step in which getConfig is called in slot c
GetConfigCalled(c) ==
    /\ wrap'[c].kind = "config"
    /\ wrap[c].pc # "await"
    /\ wrap'[c] # wrap[c]
    /\ clock' = clock

\* the step in which the getConfig call of slot c returns from its await
ConfigReturns(c) ==
    wrap[c].kind = "config" /\ wrap[c].pc = "await" /\ wrap'[c].pc = "returned"

(* C30: getConfig caches per path with a time to live: a call made while  *)
(* the entry of the path is younger than cacheTTL returns the entry's     *)
(* parsed value and does not call getAsset; a call made when the path has *)
(* no entry, or an entry of age cacheTTL or older, calls getAsset for     *)
(* github.com/<registry> and the rest of the path; and when that getAsset *)
(* returns, the parsed payload is returned and is the entry of the path,  *)
(* stamped with the time of the return.                                   *)
C30_ConfigCachedForTTL ==
    [][\A c \in Calls :
          /\ GetConfigCalled(c) =>
                LET cached == {e \in configCache : e.key = wrap'[c].cacheKey}
                IN  IF \E e \in cached : clock - e.timestamp < cacheTTL
                    THEN /\ wrap'[c].pc = "returned"
                         /\ \E e \in cached : wrap'[c].result = Ok(e.data)
                         /\ call' = call /\ calls' = calls
                         /\ configCache' = configCache
                    ELSE wrap'[c].cacheKey = PathText(AppConfig) =>
                         /\ wrap'[c].pc = "await"
                         /\ calls' = calls + 1
                         /\ call'[c].pc = "connect"
                         /\ call'[c].assetRegistry = "github.com/myorg"
                         /\ call'[c].assetKey = "configs/app.json"
                         /\ configCache' = configCache
          /\ ConfigReturns(c) =>
                IF call[c].result.ok
                THEN /\ wrap'[c].result = Ok(<<"JSON.parse", call[c].result.value>>)
                     /\ {e \in configCache' : e.key = wrap[c].cacheKey} =
                           {[key |-> wrap[c].cacheKey,
                             data |-> wrap'[c].result.value,
                             timestamp |-> clock]}
                ELSE /\ wrap'[c].result = call[c].result
                     /\ configCache' = configCache]_vars

\* C30 witness: the configuration was fetched, served from the cache while
\* fresh, and fetched again cacheTTL after the first fetch: the second
\* fetch has returned and stamped the entry anew
C30_Witness ==
    \E c \in Calls :
        /\ wrap[c].kind = "config" /\ wrap[c].pc = "returned" /\ wrap[c].result.ok
        /\ calls = 2
        /\ okCalls = 2
        /\ cacheTTL = MaxTTL
        /\ \E e \in configCache : e.key = PathText(AppConfig) /\ e.timestamp = 1 + MaxTTL


----------------------------------------------------------------------------
(* Specification: a ConfigurationManager whose application asks for two   *)
(* configurations and clears the cache, of one path or of all, between    *)
(* and during the calls; the clock stands still, so that an entry leaves  *)
(* the cache by clearCache only.                                          *)

\* both configurations were published, no consumer has read them
TwoConfigStore ==
    [asset |-> {Row(1, 1, NULL, RegistryUrl(AppConfig), AssetKeyOf(AppConfig), Content(1)),
                Row(2, 1, NULL, RegistryUrl(FlagsConfig), AssetKeyOf(FlagsConfig),
                    Content(MaxVersion))},
     asset_log |-> <<>>, asset_retrieval |-> <<>>, now |-> 2]

\* the arguments of clearCache: none, or one of the two paths
ClearCacheArgs == {Undefined, Str(PathText(AppConfig)), Str(PathText(FlagsConfig))}

InitConfigClear ==
    /\ config = [maxRetries |-> {TestNoRetries}, retryDelay |-> {}]
    /\ maxActive = 1
    /\ InitStore(TwoConfigStore)
    /\ call = [c \in Calls |-> IdleCall]
    /\ before = [c \in Calls |-> Snapshot]
    /\ calls = 0
    /\ faults = 0
    /\ fallbackCache = {}
    /\ isOfflineMode = FALSE
    /\ healthCheckInterval = FALSE
    /\ wrap = [c \in Calls |-> NoWrap]
    /\ clock = 1
    /\ ticks = 0
    /\ poolEnded = FALSE
    /\ api = NoApi
    /\ configCache = {}
    /\ cacheTTL = MaxTTL

NextConfigClear ==
    \/ \E c \in Calls, path \in {AppConfig, FlagsConfig} : GetConfig(c, path)
    \/ \E c \in Calls : ConfigReturn(c)
    \/ \E configPath \in ClearCacheArgs : ClearCache(configPath)
    \/ \E c \in Calls : Connect(c)
    \/ \E c \in Calls : Begin(c)
    \/ \E c \in Calls : SelectRegistered(c)
    \/ \E c \in Calls : SelectMaster(c)
    \/ \E c \in Calls : CreateRegistration(c)
    \/ \E c \in Calls : LogRetrieval(c)
    \/ \E c \in Calls : Commit(c)
    \/ \E c \in Calls : Rollback(c)

SpecConfigClear == InitConfigClear /\ [][NextConfigClear]_vars

\* the step in which clearCache is called
ClearCacheStep ==
    /\ api'.op = "clearCache" /\ api'.pc = "done"
    /\ wrap' = wrap /\ call' = call /\ clock' = clock /\ cacheTTL' = cacheTTL

\* the paths that have an entry in the cache
CachedPaths(entries) == {e.key : e \in entries}

(* C31: clearCache(path) evicts the entry of that path and no other, and  *)
(* clearCache() evicts every entry; a getConfig of a path without entry   *)
(* calls getAsset, while a getConfig of a path whose entry is still in    *)
(* the cache and fresh is served from the cache without a getAsset call.  *)
C31_ClearCacheEvictsThePath ==
    [][/\ ClearCacheStep =>
            LET configPath == api'.arg[1]
            IN  IF configPath.type = "string"
                THEN /\ configPath.val \notin CachedPaths(configCache')
                     /\ {e \in configCache : e.key # configPath.val} = configCache'
                ELSE configCache' = {}
       /\ \A c \in Calls : GetConfigCalled(c) =>
            IF wrap'[c].cacheKey \notin CachedPaths(configCache)
            THEN /\ wrap'[c].pc = "await"
                 /\ calls' = calls + 1
                 /\ call'[c].pc = "connect"
                 /\ <<call'[c].assetRegistry, call'[c].assetKey>> \in
                       {<<RegistryUrl(p), AssetKeyOf(p)>> :
                           p \in {q \in ConfigPaths : PathText(q) = wrap'[c].cacheKey}}
            ELSE /\ wrap'[c].pc = "returned"
                 /\ \E e \in configCache :
                       e.key = wrap'[c].cacheKey /\ wrap'[c].result = Ok(e.data)
                 /\ calls' = calls /\ call' = call]_vars

\* C31 witness: both configurations were fetched and cached, and
\* clearCache of the first path left the entry of the second alone
C31_Witness ==
    /\ api = ApiDone("clearCache", <<Str(PathText(AppConfig))>>, Ok(Undefined))
    /\ okCalls = 2
    /\ CachedPaths(configCache) = {PathText(FlagsConfig)}

\* the configuration is being fetched again after clearCache evicted it
RefetchedAfterClear ==
    \E c \in Calls :
        /\ api.op = "clearCache"
        /\ okCalls = 1 /\ calls = 2
        /\ wrap[c] = ConfigAwait(AppConfig)
        /\ configCache = {}
        /\ asset_retrieval # <<>>
        /\ asset_retrieval[1].asset_key = AssetKeyOf(AppConfig)


----------------------------------------------------------------------------
(* Feature flags (ConfigurationManager.getFeatureFlags, getFeatureFlag) *)

\* the values a flag lookup can give
True == [type |-> "boolean", val |-> "true"]
False == [type |-> "boolean", val |-> "false"]
Function(name) == [type |-> "function", val |-> name]

\* {}: an object without own properties
EmptyObject == [name \in {} |-> Undefined]

\* the properties every object created by JSON.parse or by {} inherits
\* from Object.prototype
ObjectPrototype ==
    [constructor |-> Function("Object"), toString |-> Function("toString"),
     hasOwnProperty |-> Function("hasOwnProperty"), valueOf |-> Function("valueOf")]

\* object[name]: the own property, else the inherited one, else undefined
GetProperty(object, name) ==
    IF name \in DOMAIN object THEN object[name]
    ELSE IF name \in DOMAIN ObjectPrototype THEN ObjectPrototype[name]
    ELSE Undefined

\* what the published configurations say: the first version has no
\* features, '{"other": "data"}'; every later version is
\* '{"features": {"newUI": true, "darkMode": false}}'
HasFeatures(parsed) == parsed # parseConfigData("json", Content(1).data)
FeaturesOf(parsed) ==
    IF HasFeatures(parsed) THEN [newUI |-> True, darkMode |-> False] ELSE EmptyObject

\* getFeatureFlags: config.features ?? {}, of the configuration that
\* getConfig returned; an error of getConfig passes through
getFeatureFlags(loaded) ==
    IF loaded.ok THEN Ok(FeaturesOf(loaded.value)) ELSE loaded

\* getFeatureFlag: flags[flagName] ?? defaultValue, and defaultValue in
\* the catch
getFeatureFlag(loaded, flagName, defaultValue) ==
    LET flags == getFeatureFlags(loaded)
    IN  IF flags.ok
        THEN LET flag == GetProperty(flags.value, flagName)
             IN  IF flag = Undefined THEN defaultValue ELSE flag
        ELSE defaultValue

\* getFeatureFlag up to its await: getFeatureFlags, which is in getConfig
GetFeatureFlag(c, flagsPath, flagName, defaultValue) ==
    /\ ApiIdle
    /\ EnterGetConfig(c, flagsPath)
    /\ api' = ApiCall("getFeatureFlag", "await", <<c, flagName, defaultValue>>)
    /\ UNCHANGED <<poolEnded, configCache, cacheTTL>>

\* getFeatureFlag after the await: the flag, or the default
FeatureFlagReturn ==
    /\ api.op = "getFeatureFlag" /\ api.pc = "await"
    /\ wrap[api.arg[1]].kind = "config" /\ wrap[api.arg[1]].pc = "returned"
    /\ api' = ApiDone("getFeatureFlag", api.arg,
                      Ok(getFeatureFlag(wrap[api.arg[1]].result, api.arg[2], api.arg[3])))
    /\ UNCHANGED <<config, maxActive, asset, asset_log, asset_retrieval, now,
                   call, before, calls, okCalls, faults, resVars,
                   poolEnded, configCache, cacheTTL>>

----------------------------------------------------------------------------
(* Specification: a ConfigurationManager whose application asks for       *)
(* feature flags, one call at a time, of a configuration with features,   *)
(* of one without, and of an invalid path; the store may fail.            *)

\* the flags asked for: one stored true, one stored false, one stored
\* nowhere, and one that is a property of every object
FlagNames == {"newUI", "darkMode", "missingFlag", "constructor"}

FlagPaths == {FlagsConfig, AppConfig, InvalidPath}

NextFlags ==
    \/ \E c \in Calls, flagsPath \in FlagPaths, flagName \in FlagNames,
          defaultValue \in {True, False} :
          GetFeatureFlag(c, flagsPath, flagName, defaultValue)
    \/ FeatureFlagReturn
    \/ \E c \in Calls : ConfigReturn(c)
    \/ \E c \in Calls : Connect(c)
    \/ \E c \in Calls : Begin(c)
    \/ \E c \in Calls : SelectRegistered(c)
    \/ \E c \in Calls : SelectMaster(c)
    \/ \E c \in Calls : CreateRegistration(c)
    \/ \E c \in Calls : LogRetrieval(c)
    \/ \E c \in Calls : Commit(c)
    \/ \E c \in Calls : Rollback(c)

SpecFlags == InitConfigClear /\ [][NextFlags]_vars

\* the step in which getFeatureFlag returns
FeatureFlagReturns ==
    api.op = "getFeatureFlag" /\ api.pc = "await" /\ api'.pc = "done"

\* the flags stored in the configuration that the call loaded, if any
StoredFlags(loaded) ==
    IF loaded.ok /\ HasFeatures(loaded.value)
    THEN [newUI |-> True, darkMode |-> False]
    ELSE EmptyObject

(* C32: getFeatureFlag never raises: it returns the stored boolean when   *)
(* the flag is present in the features of the configuration, and the      *)
(* caller's defaultValue when the flag is absent, when the configuration  *)
(* has no features, and when loading the configuration failed.            *)
C32_FeatureFlagOrDefault ==
    [][FeatureFlagReturns =>
          LET loaded == wrap[api.arg[1]].result
              stored == StoredFlags(loaded)
          IN  /\ api'.result.ok
              /\ api'.result.value =
                    IF api.arg[2] \in DOMAIN stored THEN stored[api.arg[2]]
                    ELSE api.arg[3]]_vars

\* the same for every flag name that is not a property of Object.prototype
FeatureFlagOrDefaultOfPlainNames ==
    [][FeatureFlagReturns /\ api.arg[2] \notin DOMAIN ObjectPrototype =>
          LET loaded == wrap[api.arg[1]].result
              stored == StoredFlags(loaded)
          IN  /\ api'.result.ok
              /\ api'.result.value =
                    IF api.arg[2] \in DOMAIN stored THEN stored[api.arg[2]]
                    ELSE api.arg[3]]_vars

\* a flag stored false was returned against the default true, a missing
\* flag gave the default after a fetch, and a failed load gave the default
StoredFalseReturned ==
    /\ api.op = "getFeatureFlag" /\ api.pc = "done"
    /\ api.arg[2] = "darkMode" /\ api.arg[3] = True
    /\ api.result = Ok(False)
DefaultAfterFailedLoad ==
    /\ api.op = "getFeatureFlag" /\ api.pc = "done"
    /\ ~wrap[api.arg[1]].result.ok
    /\ wrap[api.arg[1]].result.name = "DatabaseConnectionError"
    /\ api.arg[3] = True /\ api.result = Ok(True)


----------------------------------------------------------------------------
(* Properties of the error classes of one attempt *)

\* the step in which the attempt of call c fails, and the error the
\* attempt surfaces to the retry loop
AttemptFails(c) ==
    /\ call[c].pc \in {"connect", "rollback"}
    /\ call'[c].pc \in {"delay", "done"}
Surfaced(c) ==
    IF call'[c].pc = "done" THEN call'[c].result ELSE call'[c].error

\* the class the claim gives to the failure of the attempt
ClassOf(c) ==
    IF call[c].pc = "connect" THEN "DatabaseConnectionError"
    ELSE IF call[c].error.name = "AssetNotFoundError" THEN "AssetNotFoundError"
    ELSE "AssetUpdateError"

(* C33: every failure of one transactional attempt surfaces as            *)
(* AssetNotFoundError when there was no master row, as                    *)
(* DatabaseConnectionError when the connection could not be acquired, and *)
(* as AssetUpdateError for any other failure inside the transaction, also *)
(* when the ROLLBACK statement itself fails.                              *)
C33_ClassificationClosed ==
    [][\A c \in Calls : AttemptFails(c) => Surfaced(c).name = ClassOf(c)]_vars

\* the same for the attempts whose ROLLBACK, if any, succeeded
ClassifiedUnlessRollbackFails ==
    [][\A c \in Calls :
          AttemptFails(c) /\ call'[c].ended # "rollback failed" =>
              Surfaced(c).name = ClassOf(c)]_vars

\* an attempt that found no master row lost its AssetNotFoundError to the
\* error of the ROLLBACK
NotFoundMasked ==
    \E c \in Calls :
        /\ Raised(c)
        /\ call[c].ended = "rollback failed"
        /\ call[c].masterAsset = {}
        /\ call[c].result.name = "Error"


----------------------------------------------------------------------------
(* Properties of read-repair *)

\* the consumer's registered rows of the pair that call c asked for
OwnRows(c) ==
    {a \in asset : /\ a.user_key = call[c].userKey
                   /\ a.asset_registry = call[c].assetRegistry
                   /\ a.asset_key = call[c].assetKey}

(* C34: when a getAsset call has returned successfully and no other       *)
(* consumer call ran beside it, the consumer has one registered row for   *)
(* the pair, that row carries the fingerprint and the payload of the      *)
(* master row read in the call's transaction, and the returned value is   *)
(* that payload, whether the call registered, updated or found the row    *)
(* current.                                                               *)
C34_ReadRepairPostcondition ==
    \A c \in Calls :
        Returned(c) =>
            /\ call[c].path \in {"register", "update", "current"}
            /\ \E m \in call[c].masterAsset :
                  /\ \E row \in OwnRows(c) : OwnRows(c) = {row}
                  /\ \A row \in OwnRows(c) :
                        /\ row.data_hash = m.data_hash
                        /\ row.data = m.data
                  /\ call[c].result = Ok(m.data)

\* C34 witness: a read that found its registered row behind the master
\* updated it and returned
C34_Witness ==
    \E c \in Calls :
        /\ Returned(c)
        /\ call[c].path = "update"
        /\ asset_log # <<>>
        /\ \E reg \in RegisteredBefore(c), row \in OwnRows(c) :
              reg.id = row.id /\ reg.data_hash # row.data_hash

\* reads that registered and reads that found the row current returned too
ReturnedOnEveryPath ==
    \E c \in Calls : Returned(c) /\ call[c].path = "register"
ReturnedCurrent ==
    \E c \in Calls : Returned(c) /\ call[c].path = "current"


----------------------------------------------------------------------------
(* Specification: a resilient client with two overlapping                 *)
(* getAssetWithFallback calls for one pair, while the publisher           *)
(* republishes the pair. The consumer read the pair in an earlier run,    *)
(* when the publisher's version before the first was current, so the      *)
(* calls update the registered row and never insert one.                  *)

RepublishedPair == <<"org", "cfg/a">>

\* the master at its first version, the consumer's row one version behind
RepublishedStore ==
    [asset |-> {Row(1, 2, NULL, RepublishedPair[1], RepublishedPair[2], Content(1)),
                Row(2, 1, "svc", RepublishedPair[1], RepublishedPair[2], Content(0))},
     asset_log |-> <<>>,
     asset_retrieval |-> <<[user_key |-> "svc", asset_id |-> 2,
                            asset_registry |-> RepublishedPair[1],
                            asset_key |-> RepublishedPair[2]]>>,
     now |-> 3]

InitRepublish ==
    /\ config = [maxRetries |-> {TestNoRetries}, retryDelay |-> {}]
    /\ maxActive = Cardinality(Calls)
    /\ InitStore(RepublishedStore)
    /\ call = [c \in Calls |-> IdleCall]
    /\ before = [c \in Calls |-> Snapshot]
    /\ calls = 0
    /\ faults = 0
    /\ fallbackCache = {}
    /\ isOfflineMode = FALSE
    /\ healthCheckInterval = TRUE
    /\ wrap = [c \in Calls |-> NoWrap]
    /\ clock = 1
    /\ ticks = 0
    /\ InitApi

NextRepublish ==
    \/ Publish(RepublishedPair[1], RepublishedPair[2])
    \/ \E c \in Calls :
          /\ wrap[c].kind = "none"
          /\ GetAssetWithFallback(c, RepublishedPair[1], RepublishedPair[2])
    \/ \E c \in Calls : FallbackReturn(c)
    \/ \E c \in Calls : Connect(c)
    \/ \E c \in Calls : Begin(c)
    \/ \E c \in Calls : SelectRegistered(c)
    \/ \E c \in Calls : SelectMaster(c)
    \/ \E c \in Calls : ArchiveToLog(c)
    \/ \E c \in Calls : UpdateRegistration(c)
    \/ \E c \in Calls : LogRetrieval(c)
    \/ \E c \in Calls : Commit(c)
    \/ \E c \in Calls : Rollback(c)

SpecRepublish == InitRepublish /\ [][NextRepublish]_vars

\* no registered row goes back to the content of an earlier version
RegisteredNeverRegresses ==
    \A old \in AllRegistered : \A new \in {a \in asset' : a.id = old.id} :
        Version(new) >= Version(old)

\* no fallback entry goes back to the payload of an earlier version
FallbackNeverRegresses ==
    \A old \in fallbackCache : \A new \in {e \in fallbackCache' : e.key = old.key} :
        Version(new) >= Version(old)

(* C35: while the publisher moves the master from one version to the next *)
(* and two getAsset calls of the consumer for the pair are in flight, the *)
(* consumer's registered row, once it holds the later version's content,  *)
(* is never overwritten with the earlier version's, and the fallback      *)
(* entry of the pair, once it holds the later version's payload, is never *)
(* replaced by the earlier version's.                                     *)
C35_NoRegression ==
    [][RegisteredNeverRegresses /\ FallbackNeverRegresses]_vars

\* each half on its own
C35_RegisteredRowHalf == [][RegisteredNeverRegresses]_vars
C35_FallbackHalf == [][FallbackNeverRegresses]_vars

\* both calls returned without a fault, and the registered row and the
\* fallback entry are left with the earlier version
RegressedWithoutFault ==
    /\ faults = 0
    /\ \A c \in Calls : wrap[c].pc = "returned" /\ wrap[c].result.ok
    /\ \E m \in MasterRows(RepublishedPair[1], RepublishedPair[2]),
         row \in AllRegistered :
          Version(row) < Version(m)
    /\ \E e \in fallbackCache : e.data = Content(1).data


----------------------------------------------------------------------------
(* Properties of the provenance of fallback payloads *)

\* the step in which the getAssetWithFallback call of slot c, whose
\* getAsset failed, returns a payload from the fallback map
ServedFromFallback(c) ==
    FallbackReturns(c) /\ ~call[c].result.ok /\ wrap'[c].result.ok

\* the payloads that a fetch of the pair can have produced: the store is
\* not republished, so they are the payloads of the pair's master rows
FetchedPayloads(pair) == {m.data : m \in MasterRows(pair[1], pair[2])}

(* C36: every payload that getAssetWithFallback(registry, key) returns    *)
(* from the fallback map was produced by an earlier successful fetch of   *)
(* exactly that pair, and a successful fetch of one pair leaves the       *)
(* fallback entry of every other pair alone, also for pairs whose         *)
(* registry or key contains a slash.                                      *)
C36_FallbackProvenance ==
    [][\A c \in Calls :
          /\ ServedFromFallback(c) =>
                wrap'[c].result.value \in FetchedPayloads(PairOf(c))
          /\ FallbackReturns(c) /\ call[c].result.ok =>
                \A q \in FallbackPairs \ {PairOf(c)} :
                    EntryOf(fallbackCache', q) = EntryOf(fallbackCache, q)]_vars

\* what holds: the payload served was fetched under the same cache key,
\* and a successful fetch leaves the entries of all other keys alone
ProvenanceByCacheKey ==
    [][\A c \in Calls :
          /\ ServedFromFallback(c) =>
                /\ \E e \in fallbackCache :
                      e.key = wrap[c].cacheKey /\ e.data = wrap'[c].result.value
                /\ \E p \in FallbackPairs :
                      /\ CacheKey(p[1], p[2]) = wrap[c].cacheKey
                      /\ wrap'[c].result.value \in FetchedPayloads(p)
          /\ FallbackReturns(c) /\ call[c].result.ok =>
                {e \in fallbackCache' : e.key # wrap[c].cacheKey} =
                {e \in fallbackCache : e.key # wrap[c].cacheKey}]_vars


----------------------------------------------------------------------------
(* Specification: a resilient client that goes offline and whose timer    *)
(* fires more than once while it is offline; the probe of one tick may    *)
(* still be in flight when the next tick comes.                           *)

MaxProbeTicks == 2   \* how often the timer fires

InitProbes ==
    /\ config = [maxRetries |-> {TestNoRetries}, retryDelay |-> {}]
    /\ maxActive = Cardinality(Calls)
    /\ \E h \in BOOLEAN : InitStore(ResilientStore(h))
    /\ call = [c \in Calls |-> IdleCall]
    /\ before = [c \in Calls |-> Snapshot]
    /\ calls = 0
    /\ faults = 0
    /\ fallbackCache = {}
    /\ isOfflineMode = FALSE
    /\ healthCheckInterval = TRUE
    /\ wrap = [c \in Calls |-> NoWrap]
    /\ clock = 1
    /\ ticks = 0
    /\ InitApi

NextProbes ==
    \/ \E c \in Calls : GetAssetWithFallback(c, "org", "cfg/a")
    \/ \E c \in Calls : FallbackReturn(c)
    \/ HealthCheckTickUpTo(MaxProbeTicks)
    \/ \E c \in Calls : HealthCheckReturn(c)
    \/ \E c \in Calls : Connect(c)
    \/ \E c \in Calls : Begin(c)
    \/ \E c \in Calls : SelectRegistered(c)
    \/ \E c \in Calls : SelectMaster(c)
    \/ \E c \in Calls : CreateRegistration(c)
    \/ \E c \in Calls : ArchiveToLog(c)
    \/ \E c \in Calls : UpdateRegistration(c)
    \/ \E c \in Calls : LogRetrieval(c)
    \/ \E c \in Calls : Commit(c)
    \/ \E c \in Calls : Rollback(c)

SpecProbes == InitProbes /\ [][NextProbes]_vars

\* the probes that are in flight
ProbesInFlight == {c \in Calls : wrap[c].kind = "probe" /\ wrap[c].pc = "await"}

(* C37: at most one background health probe is in flight at any time: a  *)
(* tick of the timer starts no probe while the probe of an earlier tick   *)
(* has not completed.                                                     *)
C37_OneProbeInFlight == Cardinality(ProbesInFlight) <= 1

\* what holds: a tick starts a probe only while the client is offline, and
\* at most one probe per tick
OneProbePerOfflineTick ==
    [][ProbesInFlight' \ ProbesInFlight # {} =>
          /\ TickStep
          /\ isOfflineMode
          /\ Cardinality(ProbesInFlight' \ ProbesInFlight) = 1]_vars

\* two probes are in their transactions at once
TwoProbesInTransaction ==
    /\ Cardinality(ProbesInFlight) = 2
    /\ \A c \in ProbesInFlight : call[c].conn


\* a step of the probe that runs in slot c, from the tick to its return
ProbeStep(c) ==
    \/ TickStep /\ wrap'[c].kind = "probe" /\ wrap'[c].pc = "await" /\ wrap[c] # wrap'[c]
    \/ wrap[c].kind = "probe" /\ wrap[c].pc = "await" /\ call'[c] # call[c]

(* C38: the background health probe only reads the store: no tick of the  *)
(* timer, whether its probe succeeds or fails, inserts or updates a row   *)
(* of asset, asset_log or asset_retrieval.                                *)
C38_ProbeReadsOnly ==
    [][\A c \in Calls :
          ProbeStep(c) => UNCHANGED <<asset, asset_log, asset_retrieval>>]_vars

\* what holds: a probe that does not succeed leaves the store alone, and
\* while the health-check pair is not republished no probe archives
FailedProbeReadsOnly ==
    [][\A c \in Calls :
          ProbeStep(c) =>
              /\ asset_log' = asset_log
              /\ UNCHANGED <<asset, asset_retrieval>> \/ call'[c].result.ok]_vars

\* a probe that succeeded left a registered row and a retrieval entry of
\* the health-check pair behind
ProbeRegistered ==
    /\ \E c \in Calls : wrap[c].kind = "probe" /\ wrap[c].pc = "returned"
                        /\ wrap[c].result.ok
    /\ RegisteredRows("svc", HealthCheckPair[1], HealthCheckPair[2]) # {}
    /\ \E i \in DOMAIN asset_retrieval :
          asset_retrieval[i].asset_registry = HealthCheckPair[1]


----------------------------------------------------------------------------
(* Properties of a failed getAssetWithFallback *)

(* C39: when the wrapped getAsset failed, getAssetWithFallback leaves the *)
(* fallback map, its entries and their timestamps, unchanged on every     *)
(* path; it changes the offline flag only on the path that serves a       *)
(* cached entry; and with no entry under the pair's key it leaves the     *)
(* flag as it was and raises, also for a DatabaseConnectionError.         *)
C39_FailureLeavesMapAndFlag ==
    [][\A c \in Calls :
          FallbackReturns(c) /\ ~call[c].result.ok =>
              /\ fallbackCache' = fallbackCache
              /\ isOfflineMode' # isOfflineMode => wrap'[c].result.ok
              /\ EntryOf(fallbackCache, PairOf(c)) = {} =>
                    /\ isOfflineMode' = isOfflineMode
                    /\ wrap'[c].result = call[c].result]_vars

\* C39 witness: a call without fallback entry raised its
\* DatabaseConnectionError, and the client is not offline
C39_Witness ==
    \E c \in Calls :
        /\ wrap[c].kind = "fallback" /\ wrap[c].pc = "returned"
        /\ wrap[c].result.name = "DatabaseConnectionError"
        /\ EntryOf(fallbackCache, <<"org", "cfg/a">>) = {}
        /\ ~isOfflineMode

\* the other failure paths: an entry was served and set the flag, and an
\* entry with an Invalid Date made the catch block raise
ServedAndOffline ==
    \E c \in Calls :
        /\ wrap[c].kind = "fallback" /\ wrap[c].pc = "returned" /\ wrap[c].result.ok
        /\ isOfflineMode
RaisedRangeError ==
    \E c \in Calls :
        /\ wrap[c].kind = "fallback" /\ wrap[c].pc = "returned"
        /\ wrap[c].result.name = "RangeError"


----------------------------------------------------------------------------
(* Specification: one consumer whose client was configured with every     *)
(* retry budget from below zero to MaxRetriesCfg, or with none (the       *)
(* default), reading a pair that is published and current, or not         *)
(* published at all; the store may fail.                                  *)

RetryConfigs ==
    [maxRetries : {{}} \cup {{n} : n \in -1..MaxRetriesCfg}, retryDelay : {{}}]

InitRetryBudget ==
    /\ config \in RetryConfigs
    /\ maxActive = 1
    /\ \E store \in {EmptyStore, UsedStore} : InitStore(store)
    /\ call = [c \in Calls |-> IdleCall]
    /\ before = [c \in Calls |-> Snapshot]
    /\ calls = 0
    /\ faults = 0
    /\ InitPlain

NextRetryBudget ==
    \/ \E c \in Calls : GetAsset(c, "svc", Str("reg"), Str("a"))
    \/ \E c \in Calls : Connect(c)
    \/ \E c \in Calls : Begin(c)
    \/ \E c \in Calls : SelectRegistered(c)
    \/ \E c \in Calls : SelectMaster(c)
    \/ \E c \in Calls : LogRetrieval(c)
    \/ \E c \in Calls : Commit(c)
    \/ \E c \in Calls : Rollback(c)
    \/ \E c \in Calls : Delay(c)

SpecRetryBudget == InitRetryBudget /\ [][NextRetryBudget]_vars

\* the error that the last attempt of call c surfaced
LastAttemptError(c) ==
    LET s == call[c] IN
    IF s.statements = 0
    THEN Err("DatabaseConnectionError",
             <<"Failed to connect to database", "store fault", "connect">>)
    ELSE IF s.ended = "rollback failed"
    THEN Err("Error", <<"store fault", "ROLLBACK">>)
    ELSE IF s.error.name = "AssetNotFoundError" THEN s.error
    ELSE Err("AssetUpdateError", <<"Failed to get asset">> \o s.error.msg)

(* C40: maxRetries counts attempts: with maxRetries = n >= 1 getAsset     *)
(* makes at most n transactional attempts, with n - 1 delays between      *)
(* them, and a call that raises has made n attempts and raises the error  *)
(* of the last one; with maxRetries <= 0 it makes no attempt, asks for no *)
(* connection, leaves the store alone and raises                          *)
(* AssetUpdateError('Max retries exceeded'), also when the asset exists   *)
(* and the store is healthy.                                              *)
C40_MaxRetriesCountsAttempts ==
    \A c \in Calls :
        LET s == call[c] IN
        call[c].pc # "idle" =>
            IF maxRetries >= 1
            THEN /\ s.attempts >= 1 /\ s.attempts <= maxRetries
                 /\ s.connects <= s.attempts
                 /\ Len(s.delays) <= maxRetries - 1
                 /\ Returned(c) => Len(s.delays) = s.attempts - 1
                 /\ Raised(c) =>
                       /\ s.attempts = maxRetries
                       /\ Len(s.delays) = maxRetries - 1
                       /\ s.result = LastAttemptError(c)
                       /\ s.result.msg # <<"Max retries exceeded">>
            ELSE /\ Raised(c)
                 /\ s.attempts = 0 /\ s.connects = 0 /\ s.statements = 0
                 /\ Len(s.delays) = 0 /\ faults = 0
                 /\ TablesAsBefore(c)
                 /\ s.result = Err("AssetUpdateError", <<"Max retries exceeded">>)

\* C40 witness: with a budget of zero the call raised at once although the
\* asset is published and the store is healthy
C40_Witness ==
    \E c \in Calls :
        /\ maxRetries = 0
        /\ Raised(c)
        /\ MasterRows("reg", "a") # {}
        /\ faults = 0

\* the other budgets: a negative one, and one spent on failing attempts
NegativeBudgetRaised ==
    \E c \in Calls : maxRetries < 0 /\ Raised(c) /\ MasterRows("reg", "a") # {}
BudgetSpent ==
    \E c \in Calls :
        /\ maxRetries = MaxRetriesCfg /\ Raised(c)
        /\ call[c].attempts = MaxRetriesCfg /\ call[c].faulted

====
